---- MODULE Spec2Model ----
(***************************************************************************)
(* Model of the appwrite-ctl migration runner.                             *)
(*                                                                         *)
(*   runMigrations, waitForAttributes   src/unnamed/part_004 (runner.ts)   *)
(*   configureClient, pushSnapshot      src/unnamed/part_004 (cli.ts)      *)
(*   getAppliedMigrations, recordMigration  src/unnamed/part_003           *)
(*   loadConfig                         src/src/lib/config.ts              *)
(*   the "migrations run" command       src/src/cli/index.ts               *)
(*                                                                         *)
(* One process run of "migrations run" is a sequence of steps of the       *)
(* variable pc; between two runs pc = "idle".  The remote tracking         *)
(* collection and the files of the project root outlive a run.            *)
(***************************************************************************)
EXTENDS Integers, Sequences, FiniteSets, TLC

\* ------------------------------------------------------------------ bounds

\* Number of distinct migration ids the version scripts may export.
NumIds == 2

\* Query.limit(5000) of getAppliedMigrations.
QueryLimit == 5000

\* The sleeps of waitForAttributes are counted up to MaxSleeps; the count
\* stays there when the poller sleeps more often.
MaxSleeps == 3

\* Number of `migrations setup` calls that are followed.
MaxCalls == 3

\* Number of entries of appwrite/migration when the discovery is looked at on
\* its own.
MaxEntries == 4

Ids == 1..NumIds

\* A definition without default export, or with an absent or empty id
\* (`!migration || !migration.id`).
NoId == 0

\* ------------------------------------------------------------------- files

\* A file of the project: absent, a JSON document (projectId, body, and
\* whether it is laid out as JSON.stringify(x, null, 2) lays it out), or
\* text that JSON.parse rejects.
Absent == [kind |-> "absent", projectId |-> "", body |-> "", pretty |-> FALSE]

Garbage == [kind |-> "text", projectId |-> "", body |-> "", pretty |-> FALSE]

JsonFile(p, b, pr) == [kind |-> "json", projectId |-> p, body |-> b, pretty |-> pr]

existsSync(f) == f.kind # "absent"

\* The project-root appwrite.config.json a developer keeps.
RootOriginal == JsonFile("dev", "root", FALSE)

\* A version's snapshot, pulled from the project "dev".
VersionSnapshot == JsonFile("dev", "schema", FALSE)

\* RESOURCES = ['tables', 'buckets', 'teams', 'topics']
RESOURCES == <<"tables", "buckets", "teams", "topics">>

\* ------------------------------------------------------------ directories

\* An entry of appwrite/migration: the first character of its name, the
\* decimal digits that follow it, and whether it is a directory.
Entry(c, ds, d) == [first |-> c, digits |-> ds, isDir |-> d]

\* The version directories v2, v10 and v1.
VersionNames == {<<2>>, <<1, 0>>, <<1>>}

\* config.json, which `init` writes into the same directory.
ConfigJsonEntry == Entry("c", <<>>, FALSE)

DirEntries == {Entry("v", ds, TRUE) : ds \in VersionNames} \cup {ConfigJsonEntry}

\* parseInt of a string of decimal digits.
RECURSIVE parseInt(_)
parseInt(ds) ==
  IF ds = <<>> THEN 0
  ELSE parseInt(SubSeq(ds, 1, Len(ds) - 1)) * 10 + ds[Len(ds)]

\* String order of two digit strings (what a sort without comparator uses).
RECURSIVE LexLess(_, _)
LexLess(a, b) ==
  IF a = <<>> THEN b # <<>>
  ELSE IF b = <<>> THEN FALSE
  ELSE IF Head(a) # Head(b) THEN Head(a) < Head(b)
  ELSE LexLess(Tail(a), Tail(b))

LexCompare(a, b) ==
  IF LexLess(a.digits, b.digits) THEN -1
  ELSE IF LexLess(b.digits, a.digits) THEN 1 ELSE 0

\* Mutant of compareVersions: the names are compared as strings.
compareAsStrings(a, b) == LexCompare(a, b)

\* The comparator of the sort: parseInt(a.substring(1)) - parseInt(b.substring(1)).
compareVersions(a, b) == parseInt(a.digits) - parseInt(b.digits)

\* Array.prototype.sort is stable: x goes behind every element that does not
\* compare greater than it.
RECURSIVE insertSorted(_, _)
insertSorted(x, s) ==
  IF s = <<>> THEN <<x>>
  ELSE IF compareVersions(Head(s), x) <= 0 THEN <<Head(s)>> \o insertSorted(x, Tail(s))
  ELSE <<x>> \o s

RECURSIVE sortVersions(_)
sortVersions(s) ==
  IF s = <<>> THEN <<>>
  ELSE insertSorted(s[Len(s)], sortVersions(SubSeq(s, 1, Len(s) - 1)))

\* .filter(dir => dir.startsWith('v') && statSync(dir).isDirectory())
RECURSIVE filterVersions(_)
filterVersions(s) ==
  IF s = <<>> THEN <<>>
  ELSE IF Head(s).first = "v" /\ Head(s).isDir
       THEN <<Head(s)>> \o filterVersions(Tail(s))
       ELSE filterVersions(Tail(s))

\* The orders in which readdirSync may list a directory.
Listings(S) ==
  {s \in [1..Cardinality(S) -> S] : \A i, j \in 1..Cardinality(S) : i # j => s[i] # s[j]}

discoverVersions(listing) == sortVersions(filterVersions(listing))

\* ------------------------------------------------------- tracking collection

\* The name field of a document that does not exist.
NoDoc == <<>>

\* Mutant of listDocuments: the limit is not passed on; one page of one document.
listDocumentsOnePage(docs, limit) ==
  LET present == {i \in Ids : docs[i] # NoDoc}
  IN IF present = {} THEN {} ELSE {CHOOSE i \in present : TRUE}

\* databases.listDocuments(..., [Query.limit(5000)]): at most `limit` documents.
listDocuments(docs, limit) ==
  LET present == {i \in Ids : docs[i] # NoDoc}
  IN IF Cardinality(present) <= limit THEN present
     ELSE CHOOSE s \in SUBSET present : Cardinality(s) = limit

\* Mutant of getAppliedMigrations: a missing collection is an error as well.
getAppliedStrict(c, remoteOk) ==
  IF ~remoteOk \/ ~c.exists THEN [threw |-> TRUE, ids |-> {}]
  ELSE [threw |-> FALSE, ids |-> listDocuments(c.docs, QueryLimit)]

\* Mutant of getAppliedMigrations: every failure is answered with [].
getAppliedNothing(c, remoteOk) == [threw |-> ~remoteOk, ids |-> {}]

\* getAppliedMigrations: the ids of the listed documents; [] on 404 (database
\* or collection missing); any other remote error is thrown.
getAppliedMigrations(c, remoteOk) ==
  IF ~remoteOk THEN [threw |-> TRUE, ids |-> {}]
  ELSE IF ~c.exists THEN [threw |-> FALSE, ids |-> {}]
  ELSE [threw |-> FALSE, ids |-> listDocuments(c.docs, QueryLimit)]

\* Mutant of createDocumentOk: a taken key is no obstacle.
createDocumentUpsert(c, id, remoteOk) == remoteOk /\ c.exists

\* databases.createDocument with the migration id as document key: fails when
\* the collection is missing (404), when the key is taken (409), or remotely.
createDocumentOk(c, id, remoteOk) == remoteOk /\ c.exists /\ c.docs[id] = NoDoc

\* Mutant of recordMigration: the collection is rewritten with the one document.
recordReplacing(c, id, name) ==
  [c EXCEPT !.docs = [i \in Ids |-> IF i = id THEN name ELSE NoDoc]]

\* Mutant of recordMigration: the document is not created.
recordNothing(c, id, name) == c

\* recordMigration: one createDocument keyed by migrationId, holding the name.
recordMigration(c, id, name) == [c EXCEPT !.docs[id] = name]

\* ------------------------------------------------------------------ state

VARIABLES
  versions,       \* version directory -> [index: has index.ts/js, id: exported id]
  migrationsDir,  \* whether appwrite/migration exists
  rootFile,       \* <cwd>/appwrite.config.json
  bakFile,        \* <cwd>/appwrite.config.json.bak
  coll,           \* the tracking collection: [exists, docs: id -> name]
  pc,             \* position of the run ("idle": no process)
  exitCode,       \* exit status of the last process (-1: none yet)
  config,         \* the run's AppConfig
  versionDirs,    \* the sorted version directories of the run
  appliedSet,     \* the run's set of applied ids
  idx,            \* loop index into versionDirs
  cur,            \* the loaded migration of the current version
  ppc,            \* position inside pushSnapshot ("none": not called)
  pcfg,           \* pushSnapshot's config argument
  psnap,          \* the file at pushSnapshot's snapshotPath
  porig,          \* pushSnapshot's originalExists
  pres,           \* pushSnapshot's loop index into RESOURCES
  perr,           \* the error pushSnapshot is about to throw ("": none)
  root0,          \* history: rootFile when pushSnapshot (or pullSnapshot) was entered
  bak0,           \* history: bakFile when pushSnapshot was entered
  log,            \* history: the stage events of the current (or last) run
  startDocs,      \* history: the documents when the run started
  prevExit,       \* history: exit status of the run before this one
  upDone,         \* history: ids whose up action has completed in some run
  upAgain,        \* history: ids whose up action ran again after it had completed
  remote,         \* the server's attributes: table id -> attribute key -> status
  wpc,            \* position inside waitForAttributes ("none": not called)
  wsnap,          \* the file at waitForAttributes' snapshotPath
  wi,             \* waitForAttributes' loop index into schema.tables
  wres,           \* the outcome of the last listAttributes call
  sleeps,         \* history: the 2000 ms sleeps of the call
  unsuccessful,   \* history: the checks that found a pending attribute or failed transiently
  sys,            \* the server's tracking resources: [db, collection, attrs]
  epc,            \* position inside ensureMigrationCollection ("idle": not called)
  eret,           \* how the last call of ensureMigrationCollection ended
  ecreated,       \* history: the resources the current (or last) call created
  ecalls,         \* history: outcome and creations of every finished call
  envFiles,       \* environment-file path -> the variables the file defines
  settingsFile,   \* appwrite/migration/config.json
  penv,           \* process.env of the running process
  penv0,          \* history: process.env when the process started
  lres,           \* what the last loadConfig call returned or threw
  lpath,          \* history: the envPath of the last loadConfig call
  gpc,            \* position inside pullSnapshot ("none": not called)
  gtried,         \* history: the outcomes of the `appwrite pull` attempts
  targetFile,     \* <targetDir>/appwrite.config.json
  target0,        \* history: targetFile when pullSnapshot was entered
  dirListing,     \* appwrite/migration as readdirSync lists it
  dpc,            \* position of the discovery called on its own ("none": not called)
  rootBefore,     \* history: rootFile when the interrupted pushSnapshot call was entered
  indexTs,        \* version directory -> its index.ts as `migrations status` reads it
  spc,            \* position inside `migrations status` ("none": not called)
  sreport         \* the lines `migrations status` has printed

runVars == <<pc, exitCode, config, versionDirs, appliedSet, idx, cur>>

pushVars == <<ppc, pcfg, psnap, porig, pres, perr, root0, bak0>>

fileVars == <<rootFile, bakFile>>

histVars == <<log, startDocs, prevExit, upDone, upAgain>>

pollVars == <<remote, wpc, wsnap, wi, wres, sleeps, unsuccessful>>

setupVars == <<sys, epc, eret, ecreated, ecalls>>

cfgVars == <<envFiles, settingsFile, penv, penv0, lres, lpath>>

pullVars == <<gpc, gtried, targetFile, target0>>

toolVars == <<dirListing, dpc, rootBefore, indexTs, spc, sreport>>

harnessVars == <<setupVars, cfgVars, pullVars, toolVars>>

vars == <<versions, migrationsDir, coll, runVars, pushVars, fileVars, histVars, pollVars,
          harnessVars>>

\* Exit status of a process that was ended from outside (SIGKILL).
Killed == 137

\* `undefined` where an AppConfig is expected.
Undefined == [defined |-> FALSE, projectId |-> "", backupCommand |-> FALSE]

AppConfig(p, b) == [defined |-> TRUE, projectId |-> p, backupCommand |-> b]

NoCur == [id |-> NoId, requiresBackup |-> FALSE, snapshot |-> Absent]

\* What a version directory may hold: no script, or a script exporting an id
\* (NoId: no default export, or no id).
VersionKinds == [index : {FALSE}, id : {NoId}] \cup [index : {TRUE}, id : Ids \cup {NoId}]

Event(e, v, id, ok) == [ev |-> e, v |-> v, id |-> id, ok |-> ok, why |-> ""]

version == versionDirs[idx].digits

TypeOK ==
  /\ versions \in [VersionNames -> VersionKinds]
  /\ migrationsDir \in BOOLEAN
  /\ coll.exists \in BOOLEAN
  /\ \A i \in Ids : coll.docs[i] \in VersionNames \cup {NoDoc}
  /\ pc \in {"idle", "configure", "discover", "state", "loop", "backup", "sync",
             "pushing", "poll", "up", "record", "api"}
  /\ wpc \in {"none", "begin", "table", "query", "respond", "sleep", "returned"}
  /\ sleeps \in 0..MaxSleeps /\ unsuccessful \in 0..MaxSleeps
  /\ ppc \in {"none", "begin", "copy", "loop", "catch", "finally", "returned", "thrown"}
  /\ exitCode \in {-1, 0, 1, Killed}
  /\ dpc \in {"none", "begin", "listed"}
  /\ spc \in {"none", "begin", "list", "loop", "done", "failed"}
  /\ \A k \in 1..Len(sreport) : sreport[k].status \in {"APPLIED", "PENDING"}
  /\ appliedSet \subseteq Ids
  /\ upDone \subseteq Ids
  /\ upAgain \subseteq upDone

\* ------------------------------------------------------------ pushSnapshot

\* Mutant of takeBackup: no copy is made.
takeNoBackup(root, bak) == bak

\* Lines 169-174: the root config that exists is copied to <root>.bak.
takeBackup(root, bak) == IF existsSync(root) THEN root ELSE bak
\* Mutant of rewriteSnapshot: the snapshot is copied as it is.
copySnapshot(snap, cfg) == snap


\* Lines 177-179: the parsed snapshot with projectId set to config.projectId,
\* written as JSON.stringify(snapshotData, null, 2).
rewriteSnapshot(snap, cfg) == JsonFile(cfg.projectId, snap.body, TRUE)

\* Lines 199-202, the catch block: the backup is copied back over the root.
restoreAfterFailure(root, bak, originalExists) ==
  IF originalExists /\ existsSync(bak) THEN bak ELSE root

\* Lines 206-216, the finally block.  The pair <<root, bak>> it leaves.
restoreOriginal(root, bak, originalExists) ==
  IF originalExists
  THEN IF existsSync(bak) THEN <<bak, Absent>> ELSE <<root, bak>>
  ELSE <<Absent, bak>>

\* pushSnapshot, lines 162-174: the snapshot must exist; the root is backed up.
pushBegin ==
  /\ ppc = "begin"
  /\ IF ~existsSync(psnap)
     THEN /\ ppc' = "thrown" /\ perr' = "Snapshot not found"
          /\ UNCHANGED <<porig, bakFile>>
     ELSE /\ ppc' = "copy" /\ perr' = ""
          /\ porig' = existsSync(rootFile)
          /\ bakFile' = takeBackup(rootFile, bakFile)
  /\ UNCHANGED <<harnessVars, pollVars, versions, migrationsDir, coll, runVars, histVars>>
  /\ UNCHANGED <<pcfg, psnap, pres, root0, bak0, rootFile>>

\* pushSnapshot, lines 176-180, before the try block: JSON.parse of the snapshot
\* (SyntaxError on malformed text), config.projectId (TypeError when config is
\* undefined), then the write of the root config.
pushCopy ==
  /\ ppc = "copy"
  /\ IF psnap.kind # "json"
     THEN /\ ppc' = "thrown" /\ perr' = "SyntaxError" /\ UNCHANGED <<rootFile, pres>>
     ELSE IF ~pcfg.defined
     THEN /\ ppc' = "thrown" /\ perr' = "TypeError" /\ UNCHANGED <<rootFile, pres>>
     ELSE /\ ppc' = "loop" /\ pres' = 1 /\ UNCHANGED perr
          /\ rootFile' = rewriteSnapshot(psnap, pcfg)
  /\ UNCHANGED <<harnessVars, pollVars, versions, migrationsDir, coll, runVars, histVars>>
  /\ UNCHANGED <<pcfg, psnap, porig, root0, bak0, bakFile>>

\* pushSnapshot, lines 183-196: `appwrite push <resource> --all --force`, which
\* exits zero or not (or runs into its timeout).
pushResource ==
  /\ ppc = "loop"
  /\ \E ok \in BOOLEAN :
       IF ok
       THEN /\ ppc' = IF pres = Len(RESOURCES) THEN "finally" ELSE "loop"
            /\ pres' = IF pres = Len(RESOURCES) THEN pres ELSE pres + 1
            /\ UNCHANGED perr
       ELSE /\ ppc' = "catch" /\ perr' = "push failed" /\ UNCHANGED pres
  /\ UNCHANGED <<harnessVars, pollVars, versions, migrationsDir, coll, runVars, histVars, fileVars>>
  /\ UNCHANGED <<pcfg, psnap, porig, root0, bak0>>

\* pushSnapshot, lines 197-203.
pushCatch ==
  /\ ppc = "catch"
  /\ rootFile' = restoreAfterFailure(rootFile, bakFile, porig)
  /\ ppc' = "finally"
  /\ UNCHANGED <<harnessVars, pollVars, versions, migrationsDir, coll, runVars, histVars, bakFile>>
  /\ UNCHANGED <<pcfg, psnap, porig, pres, perr, root0, bak0>>

\* pushSnapshot, lines 204-217, then the return or the rethrow.
pushFinally ==
  /\ ppc = "finally"
  /\ rootFile' = restoreOriginal(rootFile, bakFile, porig)[1]
  /\ bakFile' = restoreOriginal(rootFile, bakFile, porig)[2]
  /\ ppc' = IF perr = "" THEN "returned" ELSE "thrown"
  /\ UNCHANGED <<harnessVars, pollVars, versions, migrationsDir, coll, runVars, histVars>>
  /\ UNCHANGED <<pcfg, psnap, porig, pres, perr, root0, bak0>>

\* A call pushSnapshot(snapshotPath, config).
callPushSnapshot(snap, cfg) ==
  /\ ppc' = "begin" /\ psnap' = snap /\ pcfg' = cfg
  /\ porig' = FALSE /\ pres' = 0 /\ perr' = ""
  /\ root0' = rootFile /\ bak0' = bakFile

\* The caller has taken pushSnapshot's result.
leavePushSnapshot ==
  /\ ppc' = "none" /\ psnap' = Absent /\ pcfg' = Undefined
  /\ porig' = FALSE /\ pres' = 0 /\ perr' = ""
  /\ root0' = Absent /\ bak0' = Absent

\* -------------------------------------------------------- waitForAttributes

\* The tables a snapshot may declare and the attributes the server keeps for
\* a table.
TableIds == {"movies", "actors"}

AttrKeys == {"title", "year"}

\* attr.status as the server reports it; only 'available' is tested for.
Statuses == {"available", "processing", "stuck"}

\* An entry of schema.tables: its $id and whether it carries a databaseId.
Table(id, db) == [id |-> id, databaseId |-> db]

\* schema.tables || []: no table, one, or two different ones.
TableLists ==
  {<<>>}
    \cup {<<Table(t, db)>> : t \in TableIds, db \in BOOLEAN}
    \cup {<<Table(p[1], d1), Table(p[2], d2)>> :
            p \in {q \in TableIds \X TableIds : q[1] # q[2]}, d1 \in BOOLEAN, d2 \in BOOLEAN}

\* The file at snapshotPath: text JSON.parse rejects, or a schema.
Malformed == [kind |-> "text", tables |-> <<>>]

TablesFile(ts) == [kind |-> "json", tables |-> ts]

PollSnapshots == {Malformed} \cup {TablesFile(ts) : ts \in TableLists}

Remotes == [TableIds -> [AttrKeys -> Statuses]]

\* databases.listAttributes resolves, rejects with code 500, or rejects with
\* another error.
QueryOutcomes == {"ok", "500", "error"}

NoResult == [i |-> 0, kind |-> "none", pending |-> 0]

tables == wsnap.tables

Bump(n) == IF n < MaxSleeps THEN n + 1 ELSE n

\* attributes.filter((attr) => attr.status !== 'available'), line 418.
pending(attributes) == {a \in DOMAIN attributes : attributes[a] # "available"}

\* The check is one the poller has to repeat.
Unsuccessful(r) == (r.kind = "ok" /\ r.pending > 0) \/ r.kind = "error"

\* waitForAttributes is not running.
pollIdle ==
  /\ remote = [t \in TableIds |-> [a \in AttrKeys |-> "available"]]
  /\ wpc = "none" /\ wsnap = Malformed /\ wi = 0 /\ wres = NoResult
  /\ sleeps = 0 /\ unsuccessful = 0

pollFrame ==
  UNCHANGED <<harnessVars, versions, migrationsDir, coll, pushVars, fileVars, histVars>>

\* Lines 381-400: the snapshot is read and parsed; on a parse error the
\* function returns at once.
pollBegin ==
  /\ wpc = "begin"
  /\ IF wsnap.kind # "json"
     THEN wpc' = "returned" /\ UNCHANGED wi
     ELSE wpc' = "table" /\ wi' = 1
  /\ UNCHANGED <<remote, wsnap, wres, sleeps, unsuccessful>>
  /\ UNCHANGED runVars /\ pollFrame

\* Mutant of pollTableSkipped: a table without databaseId is polled as well.
pollTableSkippedPolls ==
  /\ wpc = "table" /\ wi <= Len(tables)
  /\ ~tables[wi].databaseId
  /\ wpc' = "query"
  /\ UNCHANGED <<remote, wsnap, wi, wres, sleeps, unsuccessful>>
  /\ UNCHANGED runVars /\ pollFrame

\* Lines 402-409: a table without databaseId is passed over.
pollTableSkipped ==
  /\ wpc = "table" /\ wi <= Len(tables)
  /\ ~tables[wi].databaseId
  /\ wi' = wi + 1
  /\ UNCHANGED <<remote, wpc, wsnap, wres, sleeps, unsuccessful>>
  /\ UNCHANGED runVars /\ pollFrame

\* Lines 411-414: allAvailable = false; the while loop is entered.
pollTable ==
  /\ wpc = "table" /\ wi <= Len(tables)
  /\ tables[wi].databaseId
  /\ wpc' = "query"
  /\ UNCHANGED <<remote, wsnap, wi, wres, sleeps, unsuccessful>>
  /\ UNCHANGED runVars /\ pollFrame

\* Line 402 with no table left, line 443: the function returns.
pollReturn ==
  /\ wpc = "table" /\ wi > Len(tables)
  /\ wpc' = "returned"
  /\ UNCHANGED <<remote, wsnap, wi, wres, sleeps, unsuccessful>>
  /\ UNCHANGED runVars /\ pollFrame

\* Lines 416-418: databases.listAttributes(databaseId, collectionId) and the
\* count of the attributes that are not available.
listAttributes(outcome) ==
  /\ wpc = "query"
  /\ LET r == [i |-> wi, kind |-> outcome,
               pending |-> IF outcome = "ok"
                           THEN Cardinality(pending(remote[tables[wi].id])) ELSE 0]
     IN /\ wres' = r
        /\ unsuccessful' = IF Unsuccessful(r) THEN Bump(unsuccessful) ELSE unsuccessful
  /\ wpc' = "respond"
  /\ UNCHANGED <<remote, wsnap, wi, sleeps>>
  /\ UNCHANGED runVars /\ pollFrame

\* Mutant of pollResponse: a pending attribute is checked again at once.
pollResponseBusy ==
  /\ wpc = "respond"
  /\ IF wres.kind = "ok" /\ wres.pending = 0 THEN wpc' = "table" /\ wi' = wi + 1
     ELSE IF wres.kind = "ok" THEN wpc' = "query" /\ UNCHANGED wi
     ELSE IF wres.kind = "500" THEN wpc' = "table" /\ wi' = wi + 1
     ELSE wpc' = "sleep" /\ UNCHANGED wi
  /\ UNCHANGED <<remote, wsnap, wres, sleeps, unsuccessful>>
  /\ UNCHANGED runVars /\ pollFrame

\* Mutant of pollResponse: error code 500 is retried like any other error.
pollResponseRetries500 ==
  /\ wpc = "respond"
  /\ IF wres.kind = "ok" /\ wres.pending = 0 THEN wpc' = "table" /\ wi' = wi + 1
     ELSE wpc' = "sleep" /\ UNCHANGED wi
  /\ UNCHANGED <<remote, wsnap, wres, sleeps, unsuccessful>>
  /\ UNCHANGED runVars /\ pollFrame

\* Mutant of pollResponse: a table with a pending attribute is given up.
pollResponseGivesUp ==
  /\ wpc = "respond"
  /\ IF wres.kind = "error" THEN wpc' = "sleep" /\ UNCHANGED wi
     ELSE wpc' = "table" /\ wi' = wi + 1
  /\ UNCHANGED <<remote, wsnap, wres, sleeps, unsuccessful>>
  /\ UNCHANGED runVars /\ pollFrame

\* Lines 420-440: no pending attribute, or error code 500: allAvailable = true
\* and the for loop goes to the next table; a pending attribute, or any other
\* error: the poller is about to sleep.
pollResponse ==
  /\ wpc = "respond"
  /\ IF wres.kind = "ok" /\ wres.pending = 0 THEN wpc' = "table" /\ wi' = wi + 1
     ELSE IF wres.kind = "ok" THEN wpc' = "sleep" /\ UNCHANGED wi
     ELSE IF wres.kind = "500" THEN wpc' = "table" /\ wi' = wi + 1
     ELSE wpc' = "sleep" /\ UNCHANGED wi
  /\ UNCHANGED <<remote, wsnap, wres, sleeps, unsuccessful>>
  /\ UNCHANGED runVars /\ pollFrame

\* Lines 424 and 438: setTimeout(resolve, 2000) has elapsed; `while
\* (!allAvailable)` asks again.
pollSleep ==
  /\ wpc = "sleep"
  /\ sleeps' = Bump(sleeps)
  /\ wpc' = "query"
  /\ UNCHANGED <<remote, wsnap, wi, wres, unsuccessful>>
  /\ UNCHANGED runVars /\ pollFrame

\* The server finishes the processing of an attribute while the poller runs
\* (the status read at line 418).
attributeSettles ==
  /\ wpc # "none"
  /\ \E t \in TableIds, a \in AttrKeys :
       /\ remote[t][a] = "processing"
       /\ remote' = [remote EXCEPT ![t][a] = "available"]
  /\ UNCHANGED <<wpc, wsnap, wi, wres, sleeps, unsuccessful>>
  /\ UNCHANGED runVars /\ pollFrame

\* runMigrations, lines 349-354: waitForAttributes has returned; the data
\* execution stage is next.
pollingReturned ==
  /\ pc = "poll" /\ wpc = "returned"
  /\ pc' = "up" /\ wpc' = "none"
  /\ UNCHANGED <<remote, wsnap, wi, wres, sleeps, unsuccessful>>
  /\ UNCHANGED <<exitCode, config, versionDirs, appliedSet, idx, cur>>
  /\ pollFrame

\* ------------------------------------------------ ensureMigrationCollection

\* The attributes of the tracking collection: 'name' (string, required) and
\* 'appliedAt' (datetime, required).
Attrs == {"name", "appliedAt"}

\* The server without the system database.
NoSys == [db |-> FALSE, collection |-> FALSE, attrs |-> {}]

\* Database, collection and both attributes exist.
Complete(y) == y.db /\ y.collection /\ y.attrs = Attrs

setupIdle == sys = NoSys /\ epc = "idle" /\ eret = "none" /\ ecreated = {} /\ ecalls = <<>>

Finished(ret, created) == ecalls' = Append(ecalls, [ret |-> ret, created |-> created])

setupFrame ==
  UNCHANGED <<toolVars, cfgVars, pullVars, pollVars, versions, migrationsDir, coll, runVars,
              pushVars, fileVars, histVars>>

\* A remote call of ensureMigrationCollection rejects with an error that is
\* rethrown (or not caught): the call ends, `migrations setup` exits with 1.
setupThrows ==
  /\ epc' = "idle" /\ eret' = "threw" /\ Finished("threw", ecreated)
  /\ UNCHANGED <<sys, ecreated>>

\* `migrations setup` (src/src/cli/index.ts 54-72) calls
\* ensureMigrationCollection(databases, config).
ensureBegin ==
  /\ epc = "idle" /\ Len(ecalls) < MaxCalls
  /\ epc' = "getDb" /\ eret' = "none" /\ ecreated' = {}
  /\ UNCHANGED <<sys, ecalls>> /\ setupFrame

\* Lines 23-32: databases.get(config.database); 404 leads to the creation.
getDatabase ==
  /\ epc = "getDb"
  /\ \E remoteOk \in BOOLEAN :
       IF ~remoteOk THEN setupThrows
       ELSE /\ epc' = IF sys.db THEN "getColl" ELSE "createDb"
            /\ UNCHANGED <<sys, eret, ecreated, ecalls>>
  /\ setupFrame

\* Line 28: databases.create(config.database, config.database).
createDatabase ==
  /\ epc = "createDb"
  /\ \E remoteOk \in BOOLEAN :
       IF ~remoteOk THEN setupThrows
       ELSE /\ sys' = [sys EXCEPT !.db = TRUE]
            /\ ecreated' = ecreated \cup {"database"}
            /\ epc' = "getColl" /\ UNCHANGED <<eret, ecalls>>
  /\ setupFrame

\* Lines 35-38 and 58-60: databases.getCollection; 404 leads to the creation.
getCollection ==
  /\ epc = "getColl"
  /\ \E remoteOk \in BOOLEAN :
       IF ~remoteOk THEN setupThrows
       ELSE IF sys.db /\ sys.collection
       THEN /\ epc' = "idle" /\ eret' = "ok" /\ Finished("ok", ecreated)
            /\ UNCHANGED <<sys, ecreated>>
       ELSE epc' = "createColl" /\ UNCHANGED <<sys, eret, ecreated, ecalls>>
  /\ setupFrame

\* Lines 40-44: databases.createCollection.
createCollection ==
  /\ epc = "createColl"
  /\ \E remoteOk \in BOOLEAN :
       IF ~remoteOk THEN setupThrows
       ELSE /\ sys' = [sys EXCEPT !.collection = TRUE, !.attrs = {}]
            /\ ecreated' = ecreated \cup {"collection"}
            /\ epc' = "createName" /\ UNCHANGED <<eret, ecalls>>
  /\ setupFrame

\* Lines 45-51: databases.createStringAttribute(..., 'name', 255, true).
createStringAttribute ==
  /\ epc = "createName"
  /\ \E remoteOk \in BOOLEAN :
       IF ~remoteOk THEN setupThrows
       ELSE /\ sys' = [sys EXCEPT !.attrs = @ \cup {"name"}]
            /\ ecreated' = ecreated \cup {"name"}
            /\ epc' = "createAppliedAt" /\ UNCHANGED <<eret, ecalls>>
  /\ setupFrame

\* Lines 52-57: databases.createDatetimeAttribute(..., 'appliedAt', true); the
\* function returns.
createDatetimeAttribute ==
  /\ epc = "createAppliedAt"
  /\ \E remoteOk \in BOOLEAN :
       IF ~remoteOk THEN setupThrows
       ELSE /\ sys' = [sys EXCEPT !.attrs = @ \cup {"appliedAt"}]
            /\ ecreated' = ecreated \cup {"appliedAt"}
            /\ epc' = "idle" /\ eret' = "ok" /\ Finished("ok", ecreated')
  /\ setupFrame

\* --------------------------------------------------------------- loadConfig

EnvKeys == {"APPWRITE_ENDPOINT", "APPWRITE_PROJECT_ID", "APPWRITE_API_KEY", "BACKUP_COMMAND"}

Mandatory == {"APPWRITE_ENDPOINT", "APPWRITE_PROJECT_ID", "APPWRITE_API_KEY"}

\* `undefined`: a variable that is not set, a key a JSON object does not have.
Unset == "undefined"

\* !x is false: x is neither undefined nor the empty string.
truthy(x) == x \notin {Unset, ""}

NoEnv == [k \in EnvKeys |-> Unset]

\* dotenv.config({ path }): every variable the file defines is set in
\* process.env unless process.env has it already; a missing file defines none.
dotenvConfig(env, file) == [k \in EnvKeys |-> IF env[k] = Unset THEN file[k] ELSE env[k]]

\* appwrite/migration/config.json: absent, text JSON.parse rejects, or an
\* object with the optional keys collection, database and databaseId.
NoSettings == [kind |-> "absent", collection |-> Unset, database |-> Unset, databaseId |-> Unset]

GarbageSettings == [kind |-> "text", collection |-> Unset, database |-> Unset, databaseId |-> Unset]

SettingsJson(c, d, i) == [kind |-> "json", collection |-> c, database |-> d, databaseId |-> i]

NoConfig ==
  [endpoint |-> Unset, projectId |-> Unset, apiKey |-> Unset,
   migrationCollectionId |-> Unset, database |-> Unset, backupCommand |-> Unset]

\* Mutant of loadConfig: the API key is not asked for.
loadConfigLenient(env, settings) ==
  IF ~truthy(env["APPWRITE_ENDPOINT"]) \/ ~truthy(env["APPWRITE_PROJECT_ID"])
  THEN [threw |-> TRUE, config |-> NoConfig]
  ELSE [threw |-> FALSE,
        config |-> [endpoint |-> env["APPWRITE_ENDPOINT"],
                    projectId |-> env["APPWRITE_PROJECT_ID"],
                    apiKey |-> env["APPWRITE_API_KEY"],
                    migrationCollectionId |-> "migrations", database |-> "system",
                    backupCommand |-> env["BACKUP_COMMAND"]]]

\* Mutant of loadConfig: the key databaseId of the settings file is not read.
loadConfigNoDatabaseId(env, settings) ==
  IF \E k \in Mandatory : ~truthy(env[k])
  THEN [threw |-> TRUE, config |-> NoConfig]
  ELSE [threw |-> FALSE,
        config |-> [endpoint |-> env["APPWRITE_ENDPOINT"],
                    projectId |-> env["APPWRITE_PROJECT_ID"],
                    apiKey |-> env["APPWRITE_API_KEY"],
                    migrationCollectionId |->
                      IF settings.kind = "json" /\ truthy(settings.collection)
                      THEN settings.collection ELSE "migrations",
                    database |->
                      IF settings.kind = "json" /\ truthy(settings.database)
                      THEN settings.database ELSE "system",
                    backupCommand |-> env["BACKUP_COMMAND"]]]

\* loadConfig, lines 21-64, on process.env as dotenv.config has left it: the
\* three credentials are required; the settings file, when it exists and
\* parses, may name the collection and the database.
loadConfig(env, settings) ==
  IF \E k \in Mandatory : ~truthy(env[k])
  THEN [threw |-> TRUE, config |-> NoConfig]
  ELSE [threw |-> FALSE,
        config |-> [endpoint |-> env["APPWRITE_ENDPOINT"],
                    projectId |-> env["APPWRITE_PROJECT_ID"],
                    apiKey |-> env["APPWRITE_API_KEY"],
                    migrationCollectionId |->
                      IF settings.kind = "json" /\ truthy(settings.collection)
                      THEN settings.collection ELSE "migrations",
                    database |->
                      IF settings.kind = "json" /\ truthy(settings.database)
                      THEN settings.database
                      ELSE IF settings.kind = "json" /\ truthy(settings.databaseId)
                      THEN settings.databaseId ELSE "system",
                    backupCommand |-> env["BACKUP_COMMAND"]]]

EnvPaths == {".env", ".env.prod"}

\* No loadConfig call has been made.
NoCall == [called |-> FALSE, threw |-> FALSE, config |-> NoConfig, next |-> "none"]

cfgIdle ==
  /\ envFiles = [f \in EnvPaths |-> NoEnv] /\ settingsFile = NoSettings
  /\ penv = NoEnv /\ penv0 = NoEnv /\ lres = NoCall /\ lpath = ""

cfgFrame ==
  UNCHANGED <<toolVars, setupVars, pullVars, pollVars, versions, migrationsDir, coll, runVars,
              pushVars, fileVars, histVars>>

\* loadConfig(envPath) is called in the running process, as the commands
\* setup, run and status do first of all (src/src/cli/index.ts 58-71, 226-230;
\* part_004 240-242): when it throws the command's catch exits with 1,
\* otherwise the Appwrite client is created and the remote calls follow.
loadConfigCall(envPath) ==
  /\ penv' = dotenvConfig(penv, envFiles[envPath])
  /\ LET r == loadConfig(penv', settingsFile)
     IN lres' = [called |-> TRUE, threw |-> r.threw, config |-> r.config,
                 next |-> IF r.threw THEN "exit" ELSE "remote"]
  /\ lpath' = envPath
  /\ UNCHANGED <<envFiles, settingsFile, penv0>>
  /\ cfgFrame

\* --------------------------------------------------------------- pullSnapshot

\* The root config as `appwrite pull <resource>` writes it.
PulledSnapshot == JsonFile("prod", "pulled", TRUE)

\* A snapshot the target directory holds already.
StaleTarget == JsonFile("dev", "old", FALSE)

pullIdle == gpc = "none" /\ gtried = <<>> /\ targetFile = Absent /\ target0 = Absent

pullFrame ==
  UNCHANGED <<toolVars, setupVars, cfgVars, pollVars, versions, migrationsDir, coll, runVars,
              pushVars, histVars, bakFile>>

\* Mutant of pullResource: a failed pull ends pullSnapshot with its error.
pullResourceStrict ==
  /\ gpc = "loop"
  /\ \E ok \in BOOLEAN :
       /\ gtried' = Append(gtried, ok)
       /\ rootFile' = IF ok THEN PulledSnapshot ELSE rootFile
       /\ gpc' = IF ~ok THEN "thrown"
                 ELSE IF Len(gtried') = Len(RESOURCES) THEN "check" ELSE "loop"
  /\ UNCHANGED <<targetFile, target0>>
  /\ pullFrame

\* Lines 121-129: `appwrite pull <resource>`; a failure is warned about.
pullResource ==
  /\ gpc = "loop"
  /\ \E ok \in BOOLEAN :
       /\ gtried' = Append(gtried, ok)
       /\ rootFile' = IF ok THEN PulledSnapshot ELSE rootFile
  /\ gpc' = IF Len(gtried') = Len(RESOURCES) THEN "check" ELSE "loop"
  /\ UNCHANGED <<targetFile, target0>>
  /\ pullFrame

\* Lines 131-148: the root config must exist; it is copied into the target
\* directory and removed from the root.
pullFinish ==
  /\ gpc = "check"
  /\ IF ~existsSync(rootFile)
     THEN gpc' = "thrown" /\ UNCHANGED <<rootFile, targetFile>>
     ELSE gpc' = "returned" /\ targetFile' = rootFile /\ rootFile' = Absent
  /\ UNCHANGED <<gtried, target0>>
  /\ pullFrame

\* ------------------------------------------------ discovery, status, kill

\* No index.ts in any version directory (the scripts are index.js files).
NoIndexTs == [v \in VersionNames |-> [exists |-> FALSE, literal |-> NoId]]

\* Neither the discovery on its own nor `migrations status` is running and no
\* pushSnapshot call was interrupted.
toolIdle ==
  /\ dirListing = <<>> /\ dpc = "none" /\ rootBefore = Absent
  /\ indexTs = NoIndexTs /\ spc = "none" /\ sreport = <<>>

\* What appwrite/migration may hold besides v1, v2, v10 and config.json: the
\* directories v01 and v0, and a file named v3.
ListedEntries ==
  DirEntries \cup {Entry("v", <<0, 1>>, TRUE), Entry("v", <<0>>, TRUE), Entry("v", <<3>>, FALSE)}

\* Lines 257-266 of runMigrations on their own: the listing is filtered and
\* sorted into versionDirs.
readVersionDirs ==
  /\ dpc = "begin"
  /\ versionDirs' = discoverVersions(dirListing)
  /\ dpc' = "listed"
  /\ UNCHANGED <<pc, exitCode, config, appliedSet, idx, cur>>
  /\ UNCHANGED <<dirListing, rootBefore, indexTs, spc, sreport>>
  /\ UNCHANGED <<setupVars, cfgVars, pullVars, pollVars, versions, migrationsDir, coll,
                 pushVars, fileVars, histVars>>

\* ------------------------------------------------------ `migrations status`

\* The id the status command prints for a version: the first match of
\* /id:\s*["']([^"']+)["']/ in the text of index.ts, 'unknown' (NoId) when
\* there is no index.ts or no match; index.js is not looked at.
statusId(v) ==
  IF indexTs[v].exists /\ indexTs[v].literal # NoId THEN indexTs[v].literal ELSE NoId

statusFrame ==
  /\ UNCHANGED <<dirListing, dpc, rootBefore, indexTs>>
  /\ UNCHANGED <<setupVars, cfgVars, pullVars, pollVars, versions, migrationsDir, coll,
                 pushVars, fileVars, histVars>>

\* src/src/cli/index.ts 226-231: loadConfig has returned, the client is
\* created and the applied ids are fetched; an error is caught at 261-264 and
\* exits with 1.
statusBegin ==
  /\ spc = "begin"
  /\ \E remoteOk \in BOOLEAN :
       LET r == getAppliedMigrations(coll, remoteOk)
       IN IF r.threw
          THEN spc' = "failed" /\ exitCode' = 1 /\ UNCHANGED appliedSet
          ELSE spc' = "list" /\ appliedSet' = r.ids /\ UNCHANGED exitCode
  /\ UNCHANGED <<pc, config, versionDirs, idx, cur, sreport>>
  /\ statusFrame

\* 233-244: without the migrations directory the command returns; otherwise
\* the directory is listed, filtered and sorted as in runMigrations.
statusDiscover ==
  /\ spc = "list"
  /\ IF ~migrationsDir
     THEN spc' = "done" /\ exitCode' = 0 /\ UNCHANGED <<versionDirs, idx>>
     ELSE \E l \in Listings(DirEntries) :
            /\ versionDirs' = discoverVersions(l) /\ idx' = 1
            /\ spc' = "loop" /\ UNCHANGED exitCode
  /\ UNCHANGED <<pc, config, appliedSet, cur, sreport>>
  /\ statusFrame

\* 248-259: one line per version: its name, the id found in index.ts, and
\* APPLIED when appliedSet has that id, PENDING otherwise.
statusLine ==
  /\ spc = "loop" /\ idx <= Len(versionDirs)
  /\ sreport' = Append(sreport,
                       [v |-> version, id |-> statusId(version),
                        status |-> IF statusId(version) \in appliedSet
                                   THEN "APPLIED" ELSE "PENDING"])
  /\ idx' = idx + 1
  /\ UNCHANGED <<pc, exitCode, config, versionDirs, appliedSet, cur, spc>>
  /\ statusFrame

\* 259-260: the loop is over and the command ends.
statusEnd ==
  /\ spc = "loop" /\ idx > Len(versionDirs)
  /\ spc' = "done" /\ exitCode' = 0
  /\ UNCHANGED <<pc, config, versionDirs, appliedSet, idx, cur, sreport>>
  /\ statusFrame

\* ----------------------------------------------------------- runMigrations

\* process.exit(code), or the end of the process after runMigrations returned
\* or threw into the catch of the `run` command (src/src/cli/index.ts 213-219).
Exit(code) ==
  /\ pc' = "idle" /\ exitCode' = code /\ config' = Undefined
  /\ versionDirs' = <<>> /\ appliedSet' = {} /\ idx' = 0 /\ cur' = NoCur

Append1(e) == log' = Append(log, e)

\* Mutant of alreadyApplied: the collection is asked at every decision.
alreadyAppliedNow(id, applied) == coll.docs[id] # NoDoc

\* Mutant of alreadyApplied: the applied set is not consulted.
neverApplied(id, applied) == FALSE

\* if (appliedSet.has(migration.id)), line 308.
alreadyApplied(id, applied) == id \in applied

\* `migrations run`: loadConfig (which throws without the three credentials,
\* BACKUP_COMMAND being optional) and createAppwriteClient, lines 240-244.
runStart ==
  /\ pc = "idle"
  /\ log' = <<>> /\ startDocs' = coll.docs /\ prevExit' = exitCode
  /\ \E credentials \in BOOLEAN, backupCommand \in BOOLEAN :
       IF credentials
       THEN /\ pc' = "configure" /\ config' = AppConfig("prod", backupCommand)
            /\ UNCHANGED <<exitCode, versionDirs, appliedSet, idx, cur>>
       ELSE Exit(1)
  /\ UNCHANGED <<harnessVars, pollVars, versions, migrationsDir, coll, pushVars, fileVars, upDone, upAgain>>

\* Mutant of configureClient: a failure of the command is only warned about.
configureClientWarns ==
  /\ pc = "configure"
  /\ \E ok \in BOOLEAN :
       log' = IF ok THEN log ELSE Append(log, Event("configure", <<>>, NoId, FALSE))
  /\ pc' = "discover"
  /\ UNCHANGED <<exitCode, config, versionDirs, appliedSet, idx, cur>>
  /\ UNCHANGED <<harnessVars, pollVars, versions, migrationsDir, coll, pushVars, fileVars>>
  /\ UNCHANGED <<startDocs, prevExit, upDone, upAgain>>

\* Lines 246-248 and configureClient (89-105): `appwrite client ...`; a failure
\* of the command is rethrown and ends the run.
configureClient ==
  /\ pc = "configure"
  /\ \E ok \in BOOLEAN :
       IF ok THEN /\ pc' = "discover" /\ UNCHANGED log
                  /\ UNCHANGED <<exitCode, config, versionDirs, appliedSet, idx, cur>>
       ELSE Append1(Event("configure", <<>>, NoId, FALSE)) /\ Exit(1)
  /\ UNCHANGED <<harnessVars, pollVars, versions, migrationsDir, coll, pushVars, fileVars>>
  /\ UNCHANGED <<startDocs, prevExit, upDone, upAgain>>

\* Lines 250-268: the migrations directory is listed, filtered and sorted.
discovery ==
  /\ pc = "discover"
  /\ IF ~migrationsDir THEN Exit(1)
     ELSE \E listing \in Listings(DirEntries) :
            /\ versionDirs' = discoverVersions(listing)
            /\ pc' = "state"
            /\ UNCHANGED <<exitCode, config, appliedSet, idx, cur>>
  /\ UNCHANGED <<harnessVars, pollVars, versions, migrationsDir, coll, pushVars, fileVars, histVars>>

\* Lines 270-274: the applied ids are fetched once, before the loop.
stateCheck ==
  /\ pc = "state"
  /\ \E remoteOk \in BOOLEAN :
       LET r == getAppliedMigrations(coll, remoteOk)
       IN IF r.threw
          THEN /\ Append1([Event("state", <<>>, NoId, FALSE)
                             EXCEPT !.why = IF remoteOk THEN "404" ELSE "error"])
               /\ Exit(1)
          ELSE /\ appliedSet' = r.ids /\ idx' = 1 /\ pc' = "loop"
               /\ UNCHANGED <<exitCode, config, versionDirs, cur, log>>
  /\ UNCHANGED <<harnessVars, pollVars, versions, migrationsDir, coll, pushVars, fileVars>>
  /\ UNCHANGED <<startDocs, prevExit, upDone, upAgain>>

\* Line 276 left with no version remaining, line 378: the run ends normally.
allApplied ==
  /\ pc = "loop" /\ idx > Len(versionDirs)
  /\ Exit(0)
  /\ UNCHANGED <<harnessVars, pollVars, versions, migrationsDir, coll, pushVars, fileVars, histVars>>

\* Mutant of skipNoIndex: a version without a script ends the run.
skipNoIndexFatal ==
  /\ pc = "loop" /\ idx <= Len(versionDirs)
  /\ ~versions[version].index
  /\ Exit(1)
  /\ UNCHANGED <<harnessVars, pollVars, versions, migrationsDir, coll, pushVars, fileVars, histVars>>

\* Lines 277-290: a version without index.ts or index.js is passed over.
skipNoIndex ==
  /\ pc = "loop" /\ idx <= Len(versionDirs)
  /\ ~versions[version].index
  /\ idx' = idx + 1
  /\ UNCHANGED <<pc, exitCode, config, versionDirs, appliedSet, cur>>
  /\ UNCHANGED <<harnessVars, pollVars, versions, migrationsDir, coll, pushVars, fileVars, histVars>>

\* Mutant of loadFailed: the version is passed over like one without a script.
loadFailedSkips ==
  /\ pc = "loop" /\ idx <= Len(versionDirs)
  /\ versions[version].index
  /\ Append1(Event("load", version, NoId, FALSE))
  /\ idx' = idx + 1 /\ exitCode' = 1
  /\ UNCHANGED <<pc, config, versionDirs, appliedSet, cur>>
  /\ UNCHANGED <<harnessVars, pollVars, versions, migrationsDir, coll, pushVars, fileVars>>
  /\ UNCHANGED <<startDocs, prevExit, upDone, upAgain>>

\* Mutant of loadFailed: the loop goes on with the next version.
loadFailedContinues ==
  /\ pc = "loop" /\ idx <= Len(versionDirs)
  /\ versions[version].index
  /\ Append1(Event("load", version, NoId, FALSE))
  /\ idx' = idx + 1
  /\ UNCHANGED <<pc, exitCode, config, versionDirs, appliedSet, cur>>
  /\ UNCHANGED <<harnessVars, pollVars, versions, migrationsDir, coll, pushVars, fileVars>>
  /\ UNCHANGED <<startDocs, prevExit, upDone, upAgain>>

\* Lines 292-299: jiti.import throws; process.exit(1).
loadFailed ==
  /\ pc = "loop" /\ idx <= Len(versionDirs)
  /\ versions[version].index
  /\ Append1(Event("load", version, NoId, FALSE))
  /\ Exit(1)
  /\ UNCHANGED <<harnessVars, pollVars, versions, migrationsDir, coll, pushVars, fileVars>>
  /\ UNCHANGED <<startDocs, prevExit, upDone, upAgain>>

\* Mutant of invalidMigration: the definition is taken as it is and applied.
invalidMigrationApplied ==
  /\ pc = "loop" /\ idx <= Len(versionDirs)
  /\ versions[version].index
  /\ versions[version].id = NoId
  /\ Append1(Event("apply", version, NoId, TRUE))
  /\ cur' = NoCur
  /\ pc' = "backup"
  /\ UNCHANGED <<exitCode, config, versionDirs, appliedSet, idx>>
  /\ UNCHANGED <<harnessVars, pollVars, versions, migrationsDir, coll, pushVars, fileVars>>
  /\ UNCHANGED <<startDocs, prevExit, upDone, upAgain>>

\* Lines 301-306: no default export or no id; process.exit(1).
invalidMigration ==
  /\ pc = "loop" /\ idx <= Len(versionDirs)
  /\ versions[version].index
  /\ versions[version].id = NoId
  /\ Append1(Event("invalid", version, NoId, FALSE))
  /\ Exit(1)
  /\ UNCHANGED <<harnessVars, pollVars, versions, migrationsDir, coll, pushVars, fileVars>>
  /\ UNCHANGED <<startDocs, prevExit, upDone, upAgain>>

\* Lines 308-311: the id is in the applied set; the version is skipped.
skipApplied ==
  /\ pc = "loop" /\ idx <= Len(versionDirs)
  /\ versions[version].index
  /\ versions[version].id # NoId
  /\ alreadyApplied(versions[version].id, appliedSet)
  /\ Append1(Event("skip", version, versions[version].id, TRUE))
  /\ idx' = idx + 1
  /\ UNCHANGED <<pc, exitCode, config, versionDirs, appliedSet, cur>>
  /\ UNCHANGED <<harnessVars, pollVars, versions, migrationsDir, coll, pushVars, fileVars>>
  /\ UNCHANGED <<startDocs, prevExit, upDone, upAgain>>

\* Line 313: the version is pending.  The loaded definition's requiresBackup
\* flag and the version's snapshot file are read from the directory.
applyVersion ==
  /\ pc = "loop" /\ idx <= Len(versionDirs)
  /\ versions[version].index
  /\ versions[version].id # NoId
  /\ ~alreadyApplied(versions[version].id, appliedSet)
  /\ \E rb \in BOOLEAN, snap \in {Absent, VersionSnapshot} :
       /\ cur' = [id |-> versions[version].id, requiresBackup |-> rb, snapshot |-> snap]
       /\ Append1([Event("apply", version, versions[version].id, TRUE)
                     EXCEPT !.why = IF rb THEN "requiresBackup" ELSE ""])
  /\ pc' = "backup"
  /\ UNCHANGED <<exitCode, config, versionDirs, appliedSet, idx>>
  /\ UNCHANGED <<harnessVars, pollVars, versions, migrationsDir, coll, pushVars, fileVars>>
  /\ UNCHANGED <<startDocs, prevExit, upDone, upAgain>>

\* Mutant of backupHook: a failed backup command is logged, not fatal.
backupHookGoesOn ==
  /\ pc = "backup"
  /\ cur.requiresBackup /\ config.backupCommand
  /\ \E ok \in BOOLEAN : Append1(Event("backup", version, cur.id, ok))
  /\ pc' = "sync"
  /\ UNCHANGED <<exitCode, config, versionDirs, appliedSet, idx, cur>>
  /\ UNCHANGED <<harnessVars, pollVars, versions, migrationsDir, coll, pushVars, fileVars>>
  /\ UNCHANGED <<startDocs, prevExit, upDone, upAgain>>

\* Lines 315-326: requiresBackup with a backup command: the command is run.
backupHook ==
  /\ pc = "backup"
  /\ cur.requiresBackup /\ config.backupCommand
  /\ \E ok \in BOOLEAN :
       /\ Append1(Event("backup", version, cur.id, ok))
       /\ IF ok THEN pc' = "sync" /\ UNCHANGED <<exitCode, config, versionDirs, appliedSet, idx, cur>>
          ELSE Exit(1)
  /\ UNCHANGED <<harnessVars, pollVars, versions, migrationsDir, coll, pushVars, fileVars>>
  /\ UNCHANGED <<startDocs, prevExit, upDone, upAgain>>

\* Mutant of backupSkipped: a wanted backup without a command ends the run.
backupSkippedStrict ==
  /\ pc = "backup"
  /\ ~(cur.requiresBackup /\ config.backupCommand)
  /\ IF cur.requiresBackup
     THEN Append1(Event("warn", version, cur.id, TRUE)) /\ Exit(1)
     ELSE /\ pc' = "sync" /\ UNCHANGED log
          /\ UNCHANGED <<exitCode, config, versionDirs, appliedSet, idx, cur>>
  /\ UNCHANGED <<harnessVars, pollVars, versions, migrationsDir, coll, pushVars, fileVars>>
  /\ UNCHANGED <<startDocs, prevExit, upDone, upAgain>>

\* Lines 327-331: no backup wanted, or wanted without a command: a warning is
\* printed and no process is started.
backupSkipped ==
  /\ pc = "backup"
  /\ ~(cur.requiresBackup /\ config.backupCommand)
  /\ log' = IF cur.requiresBackup THEN Append(log, Event("warn", version, cur.id, TRUE)) ELSE log
  /\ pc' = "sync"
  /\ UNCHANGED <<exitCode, config, versionDirs, appliedSet, idx, cur>>
  /\ UNCHANGED <<harnessVars, pollVars, versions, migrationsDir, coll, pushVars, fileVars>>
  /\ UNCHANGED <<startDocs, prevExit, upDone, upAgain>>

\* Lines 333-338: the version has a snapshot; pushSnapshot(snapshotPath) is
\* called with one argument, so its config parameter is undefined.
schemaSync ==
  /\ pc = "sync"
  /\ existsSync(cur.snapshot)
  /\ callPushSnapshot(cur.snapshot, Undefined)
  /\ Append1(Event("pushcall", version, cur.id, TRUE))
  /\ pc' = "pushing"
  /\ UNCHANGED <<exitCode, config, versionDirs, appliedSet, idx, cur>>
  /\ UNCHANGED <<harnessVars, pollVars, versions, migrationsDir, coll, fileVars>>
  /\ UNCHANGED <<startDocs, prevExit, upDone, upAgain>>

\* Lines 339-343: pushSnapshot threw; process.exit(1).
schemaSyncFailed ==
  /\ pc = "pushing" /\ ppc = "thrown"
  /\ Append1([Event("push", version, cur.id, FALSE) EXCEPT !.why = perr])
  /\ leavePushSnapshot
  /\ Exit(1)
  /\ UNCHANGED <<harnessVars, pollVars, versions, migrationsDir, coll, fileVars>>
  /\ UNCHANGED <<startDocs, prevExit, upDone, upAgain>>

\* Lines 344-351: no snapshot file: neither schema sync nor attribute polling.
schemaSyncSkipped ==
  /\ pc = "sync"
  /\ ~existsSync(cur.snapshot)
  /\ pc' = "up"
  /\ UNCHANGED <<exitCode, config, versionDirs, appliedSet, idx, cur>>
  /\ UNCHANGED <<harnessVars, pollVars, versions, migrationsDir, coll, pushVars, fileVars, histVars>>

\* Line 362, `if (migration.up)` not taken: the loaded definition has no up
\* action (the script is not type-checked when it is imported); nothing is
\* executed and the run goes on to the finalization.
dataExecutionNoUp ==
  /\ pc = "up"
  /\ pc' = "record"
  /\ UNCHANGED <<exitCode, config, versionDirs, appliedSet, idx, cur>>
  /\ UNCHANGED <<harnessVars, pollVars, versions, migrationsDir, coll, pushVars, fileVars, histVars>>

\* Lines 353-369: the definition has an up action; migration.up(context)
\* returns or throws.
dataExecution ==
  /\ pc = "up"
  /\ \E ok \in BOOLEAN :
       /\ Append1(Event("up", version, cur.id, ok))
       /\ upAgain' = IF cur.id \in upDone THEN upAgain \cup {cur.id} ELSE upAgain
       /\ IF ok
          THEN /\ pc' = "record" /\ upDone' = upDone \cup {cur.id}
               /\ UNCHANGED <<exitCode, config, versionDirs, appliedSet, idx, cur>>
          ELSE Exit(1) /\ UNCHANGED upDone
  /\ UNCHANGED <<harnessVars, pollVars, versions, migrationsDir, coll, pushVars, fileVars>>
  /\ UNCHANGED <<startDocs, prevExit>>

\* Lines 371-375: recordMigration(databases, config, migration.id, version); a
\* rejected createDocument is thrown out of runMigrations.
finalization ==
  /\ pc = "record"
  /\ \E remoteOk \in BOOLEAN :
       LET ok == createDocumentOk(coll, cur.id, remoteOk)
       IN /\ Append1(Event("record", version, cur.id, ok))
          /\ IF ok
             THEN /\ coll' = recordMigration(coll, cur.id, version)
                  /\ idx' = idx + 1 /\ pc' = "loop" /\ cur' = NoCur
                  /\ UNCHANGED <<exitCode, config, versionDirs, appliedSet>>
             ELSE Exit(1) /\ UNCHANGED coll
  /\ UNCHANGED <<harnessVars, pollVars, versions, migrationsDir, pushVars, fileVars>>
  /\ UNCHANGED <<startDocs, prevExit, upDone, upAgain>>

\* ------------------------------------------------------------ specification

Init ==
  /\ migrationsDir \in BOOLEAN
  /\ versions \in [VersionNames -> VersionKinds]
  /\ (~migrationsDir => \A v \in VersionNames : ~versions[v].index)
  /\ rootFile \in {Absent, RootOriginal}
  /\ bakFile = Absent
  /\ coll \in [exists : BOOLEAN, docs : {[i \in Ids |-> NoDoc]}]
  /\ pc = "idle" /\ exitCode = -1 /\ config = Undefined
  /\ versionDirs = <<>> /\ appliedSet = {} /\ idx = 0 /\ cur = NoCur
  /\ ppc = "none" /\ psnap = Absent /\ pcfg = Undefined
  /\ porig = FALSE /\ pres = 0 /\ perr = ""
  /\ root0 = Absent /\ bak0 = Absent
  /\ log = <<>> /\ startDocs = [i \in Ids |-> NoDoc] /\ prevExit = -1 /\ upDone = {} /\ upAgain = {}
  /\ pollIdle
  /\ setupIdle /\ cfgIdle /\ pullIdle /\ toolIdle

Next ==
  \/ runStart \/ configureClient \/ discovery \/ stateCheck
  \/ allApplied \/ skipNoIndex \/ loadFailed \/ invalidMigration
  \/ skipApplied \/ applyVersion
  \/ backupHook \/ backupSkipped
  \/ schemaSync \/ pushBegin \/ pushCopy \/ schemaSyncFailed \/ schemaSyncSkipped
  \/ dataExecution \/ dataExecutionNoUp \/ finalization

Spec == Init /\ [][Next]_vars

\* ------------------------------------------- pushSnapshot called on its own

\* The snapshots pushSnapshot may be given: none, malformed text, a snapshot
\* of another project, a snapshot of the target project.
SnapshotFiles == {Absent, Garbage, VersionSnapshot, JsonFile("prod", "schema", TRUE)}

\* The root config before the call: none, the developer's, or one that is
\* already laid out the way pushSnapshot writes.
RootFiles == {Absent, RootOriginal, JsonFile("prod", "root", TRUE)}

\* A backup file left behind earlier.
StaleBackup == JsonFile("dev", "stale", FALSE)

\* One call pushSnapshot(snapshotPath, config) of the exported function.
InitPush ==
  /\ migrationsDir = TRUE
  /\ versions = [v \in VersionNames |-> [index |-> FALSE, id |-> NoId]]
  /\ rootFile \in RootFiles
  /\ bakFile \in {Absent, StaleBackup}
  /\ coll = [exists |-> FALSE, docs |-> [i \in Ids |-> NoDoc]]
  /\ pc = "api" /\ exitCode = -1 /\ config = Undefined
  /\ versionDirs = <<>> /\ appliedSet = {} /\ idx = 0 /\ cur = NoCur
  /\ ppc = "begin" /\ psnap \in SnapshotFiles
  /\ pcfg \in {AppConfig(p, FALSE) : p \in {"prod", "dev"}}
  /\ porig = FALSE /\ pres = 0 /\ perr = ""
  /\ root0 = rootFile /\ bak0 = bakFile
  /\ log = <<>> /\ startDocs = [i \in Ids |-> NoDoc] /\ prevExit = -1
  /\ upDone = {} /\ upAgain = {}
  /\ pollIdle
  /\ setupIdle /\ cfgIdle /\ pullIdle /\ toolIdle

NextPush == pushBegin \/ pushCopy \/ pushResource \/ pushCatch \/ pushFinally

SpecPush == InitPush /\ [][NextPush]_vars

\* ------------------------------------------ pushSnapshot, interrupted once

\* The process is ended from outside while pushSnapshot is between the write
\* of the root config (line 179) and the end of its finally block (217): the
\* files stay as they are, the memory of the call is gone.
pushKilled ==
  /\ pc = "api" /\ exitCode # Killed
  /\ ppc \in {"loop", "catch", "finally"}
  /\ exitCode' = Killed /\ rootBefore' = root0
  /\ leavePushSnapshot
  /\ UNCHANGED <<pc, config, versionDirs, appliedSet, idx, cur>>
  /\ UNCHANGED <<dirListing, dpc, indexTs, spc, sreport>>
  /\ UNCHANGED <<setupVars, cfgVars, pullVars, pollVars, versions, migrationsDir, coll,
                 fileVars, histVars>>

\* The next process calls pushSnapshot(snapshotPath, config).
pushAgain ==
  /\ pc = "api" /\ exitCode = Killed /\ ppc = "none"
  /\ \E snap \in SnapshotFiles, p \in {"prod", "dev"} :
       callPushSnapshot(snap, AppConfig(p, FALSE))
  /\ UNCHANGED <<harnessVars, pollVars, versions, migrationsDir, coll, runVars, fileVars,
                 histVars>>

NextPushKilled == NextPush \/ pushKilled \/ pushAgain

SpecPushKilled == InitPush /\ [][NextPushKilled]_vars

\* ------------------------------------------------------- interrupted runs

\* The process of a run is ended from outside at any point of runMigrations
\* (or of the pushSnapshot call it is in): its memory is gone, the remote
\* collection and the files stay as they are.
interrupted ==
  /\ pc \notin {"idle", "api", "poll"}
  /\ Exit(Killed)
  /\ leavePushSnapshot
  /\ UNCHANGED <<harnessVars, pollVars, versions, migrationsDir, coll, fileVars, histVars>>

NextInterrupt == Next \/ interrupted

SpecInterrupt == Init /\ [][NextInterrupt]_vars

\* -------------------------------------------------- a concurrent writer

\* After a run has fetched the applied ids another process (a second
\* `migrations run` of the same project) completes recordMigration for one of
\* the versions.
externalRecord ==
  /\ pc \in {"loop", "backup", "sync", "pushing", "up", "record"}
  /\ coll.exists
  /\ \E v \in VersionNames :
       /\ versions[v].index /\ versions[v].id # NoId
       /\ coll.docs[versions[v].id] = NoDoc
       /\ coll' = recordMigration(coll, versions[v].id, v)
  /\ UNCHANGED <<harnessVars, pollVars, versions, migrationsDir, runVars, pushVars, fileVars,
                 histVars>>

NextShared == Next \/ externalRecord

SpecShared == Init /\ [][NextShared]_vars

\* --------------------------------------- waitForAttributes called on its own

\* runMigrations at line 349 for a version whose snapshot exists: one call
\* waitForAttributes(databases, snapshotPath), then line 354.  The call of
\* pushSnapshot at line 338 never returns normally (config is undefined at
\* line 178), so schemaSync does not lead here.
InitPoll ==
  /\ migrationsDir = TRUE
  /\ versions = [v \in VersionNames |-> [index |-> FALSE, id |-> NoId]]
  /\ rootFile = RootOriginal /\ bakFile = Absent
  /\ coll = [exists |-> TRUE, docs |-> [i \in Ids |-> NoDoc]]
  /\ pc = "poll" /\ exitCode = -1 /\ config = AppConfig("prod", FALSE)
  /\ versionDirs = <<>> /\ appliedSet = {} /\ idx = 0 /\ cur = NoCur
  /\ ppc = "none" /\ psnap = Absent /\ pcfg = Undefined
  /\ porig = FALSE /\ pres = 0 /\ perr = ""
  /\ root0 = Absent /\ bak0 = Absent
  /\ log = <<>> /\ startDocs = [i \in Ids |-> NoDoc] /\ prevExit = -1
  /\ upDone = {} /\ upAgain = {}
  /\ remote \in Remotes
  /\ wpc = "begin" /\ wsnap \in PollSnapshots /\ wi = 0 /\ wres = NoResult
  /\ sleeps = 0 /\ unsuccessful = 0
  /\ setupIdle /\ cfgIdle /\ pullIdle /\ toolIdle

NextPoll ==
  \/ pollBegin \/ pollTableSkipped \/ pollTable \/ pollReturn
  \/ (\E outcome \in QueryOutcomes : listAttributes(outcome))
  \/ pollResponse \/ pollSleep \/ attributeSettles \/ pollingReturned

SpecPoll == InitPoll /\ [][NextPoll]_vars

\* The event loop runs the poller; the server finishes every attribute it is
\* processing; listAttributes does not fail for ever.
SpecPollFair ==
  /\ SpecPoll
  /\ WF_vars(pollBegin \/ pollTableSkipped \/ pollTable \/ pollReturn
               \/ pollResponse \/ pollSleep \/ pollingReturned)
  /\ WF_vars(attributeSettles)
  /\ SF_vars(listAttributes("ok"))


\* ------------------------------------- the remaining functions on their own

\* What the other variables hold while one of the functions below is called.
runnerIdle ==
  /\ migrationsDir = TRUE
  /\ versions = [v \in VersionNames |-> [index |-> FALSE, id |-> NoId]]
  /\ coll = [exists |-> FALSE, docs |-> [i \in Ids |-> NoDoc]]
  /\ pc = "api" /\ exitCode = -1 /\ config = Undefined
  /\ versionDirs = <<>> /\ appliedSet = {} /\ idx = 0 /\ cur = NoCur
  /\ ppc = "none" /\ psnap = Absent /\ pcfg = Undefined
  /\ porig = FALSE /\ pres = 0 /\ perr = ""
  /\ bak0 = Absent
  /\ log = <<>> /\ startDocs = [i \in Ids |-> NoDoc] /\ prevExit = -1
  /\ upDone = {} /\ upAgain = {}
  /\ pollIdle

\* `migrations setup`, run any number of times against a server that has
\* nothing, the system database only, or everything.
InitSetup ==
  /\ runnerIdle /\ cfgIdle /\ pullIdle /\ toolIdle
  /\ rootFile = Absent /\ bakFile = Absent /\ root0 = Absent
  /\ sys \in {NoSys, [NoSys EXCEPT !.db = TRUE],
              [db |-> TRUE, collection |-> TRUE, attrs |-> Attrs]}
  /\ epc = "idle" /\ eret = "none" /\ ecreated = {} /\ ecalls = <<>>

NextSetup ==
  \/ ensureBegin \/ getDatabase \/ createDatabase \/ getCollection
  \/ createCollection \/ createStringAttribute \/ createDatetimeAttribute

SpecSetup == InitSetup /\ [][NextSetup]_vars

\* What an environment file may define: each credential absent, empty or
\* given, the backup command absent or given.
EnvFileContents ==
  {f \in [EnvKeys -> {Unset, "", "a"}] : f["BACKUP_COMMAND"] # ""}

\* A second environment file: nothing, the credentials, or all four variables.
OtherEnvFileContents ==
  {NoEnv,
   [k \in EnvKeys |-> IF k \in Mandatory THEN "b" ELSE Unset],
   [k \in EnvKeys |-> "b"]}

SettingsFiles ==
  {NoSettings, GarbageSettings}
    \cup {SettingsJson(c, d, i) : c \in {Unset, "", "c"}, d \in {Unset, "", "d"},
                                 i \in {Unset, "", "i"}}

\* loadConfig called any number of times in one process, which was started
\* with nothing or with the endpoint exported.
InitConfig ==
  /\ runnerIdle /\ setupIdle /\ pullIdle /\ toolIdle
  /\ rootFile = Absent /\ bakFile = Absent /\ root0 = Absent
  /\ envFiles \in {[f \in EnvPaths |-> IF f = ".env" THEN x ELSE y] :
                     x \in EnvFileContents, y \in OtherEnvFileContents}
  /\ settingsFile \in SettingsFiles
  /\ penv0 \in {NoEnv, [NoEnv EXCEPT !["APPWRITE_ENDPOINT"] = "s"]}
  /\ penv = penv0 /\ lres = NoCall /\ lpath = ""

NextConfig == \E envPath \in EnvPaths : loadConfigCall(envPath)

SpecConfig == InitConfig /\ [][NextConfig]_vars

\* One call pullSnapshot(targetDir) of an existing target directory.
InitPull ==
  /\ runnerIdle /\ setupIdle /\ cfgIdle /\ toolIdle
  /\ rootFile \in RootFiles /\ bakFile = Absent /\ root0 = rootFile
  /\ gpc = "loop" /\ gtried = <<>>
  /\ targetFile \in {Absent, StaleTarget} /\ target0 = targetFile

NextPull == pullResource \/ pullFinish

SpecPull == InitPull /\ [][NextPull]_vars


\* The discovery of runMigrations for a directory of at most MaxEntries
\* entries, listed in any order.
InitDiscover ==
  /\ runnerIdle /\ setupIdle /\ cfgIdle /\ pullIdle
  /\ rootFile = Absent /\ bakFile = Absent /\ root0 = Absent
  /\ dirListing \in UNION {Listings(S) : S \in {T \in SUBSET ListedEntries :
                                                  Cardinality(T) <= MaxEntries}}
  /\ dpc = "begin" /\ rootBefore = Absent
  /\ indexTs = NoIndexTs /\ spc = "none" /\ sreport = <<>>

NextDiscover == readVersionDirs

SpecDiscover == InitDiscover /\ [][NextDiscover]_vars

\* A tracking collection that holds records for the ids of S.
RecordedAs(S) == [i \in Ids |-> IF i \in S THEN <<1>> ELSE NoDoc]

\* The index.ts files that go with the version directories: a script is an
\* index.ts whose text shows the exported id or does not (a computed id), or
\* it is an index.js.
IndexTsFiles(vs) ==
  {f \in [VersionNames -> [exists : BOOLEAN, literal : Ids \cup {NoId}]] :
     \A v \in VersionNames :
       /\ f[v].exists => vs[v].index
       /\ f[v].literal \in {NoId, vs[v].id}
       /\ ~f[v].exists => f[v].literal = NoId}

\* One `migrations status` over any version directories and any records.
InitStatus ==
  /\ migrationsDir \in BOOLEAN
  /\ versions \in [VersionNames -> VersionKinds]
  /\ (~migrationsDir => \A v \in VersionNames : ~versions[v].index)
  /\ indexTs \in IndexTsFiles(versions)
  /\ \E S \in SUBSET Ids, e \in BOOLEAN :
       coll = [exists |-> e, docs |-> RecordedAs(IF e THEN S ELSE {})]
  /\ pc = "api" /\ exitCode = -1 /\ config = Undefined
  /\ versionDirs = <<>> /\ appliedSet = {} /\ idx = 0 /\ cur = NoCur
  /\ ppc = "none" /\ psnap = Absent /\ pcfg = Undefined
  /\ porig = FALSE /\ pres = 0 /\ perr = ""
  /\ rootFile = Absent /\ bakFile = Absent /\ root0 = Absent /\ bak0 = Absent
  /\ log = <<>> /\ startDocs = coll.docs /\ prevExit = -1
  /\ upDone = {} /\ upAgain = {}
  /\ pollIdle /\ setupIdle /\ cfgIdle /\ pullIdle
  /\ dirListing = <<>> /\ dpc = "none" /\ rootBefore = Absent
  /\ spc = "begin" /\ sreport = <<>>

NextStatus == statusBegin \/ statusDiscover \/ statusLine \/ statusEnd

SpecStatus == InitStatus /\ [][NextStatus]_vars

\* ------------------------------------------------------------------ claims

Evs == 1..Len(log)

Num(v) == parseInt(v)

Recorded(docs) == {i \in Ids : docs[i] # NoDoc}

\* The version directories that hold a script.
Runnable == {v \in VersionNames : versions[v].index}

Fatal(e) == ~e.ok /\ e.ev \in {"load", "invalid", "backup", "push", "up", "record"}

\* C1: a run never invokes the up action of a version whose id had a record
\* in the tracking collection when the run started.
C1_AtMostOnce ==
  \A k \in Evs : log[k].ev = "up" => startDocs[log[k].id] = NoDoc

\* A run that ended normally after skipping a version recorded before it began.
C1_Witness ==
  /\ pc = "idle" /\ exitCode = 0
  /\ \E k \in Evs : log[k].ev = "skip" /\ startDocs[log[k].id] # NoDoc

\* C2 (as claimed): over all runs, no up action runs again for an id whose up
\* action has completed, and every recorded id has a completed up action.
C2_UpOncePerId ==
  /\ upAgain = {}
  /\ Recorded(coll.docs) \subseteq upDone

\* C3: in a run that follows a run which ended normally, no up action is
\* invoked and no record is written.
C3_Idempotence ==
  prevExit = 0 =>
    /\ \A k \in Evs : log[k].ev \notin {"apply", "up", "record"}
    /\ coll.docs = startDocs

\* A second run that ended normally after skipping what the first recorded.
C3_Witness ==
  /\ prevExit = 0 /\ pc = "idle" /\ exitCode = 0
  /\ Recorded(startDocs) # {}
  /\ \E k \in Evs : log[k].ev = "skip"

\* C4: the run's version list is in strictly ascending numeric order and holds
\* every version directory; the events of the run follow that order, and a
\* version's pipeline begins only after every lower-numbered version that has
\* a script was skipped or recorded.
C4_NumericOrder ==
  /\ \A i, j \in 1..Len(versionDirs) :
       i < j => Num(versionDirs[i].digits) < Num(versionDirs[j].digits)
  /\ pc \in {"state", "loop", "backup", "sync", "pushing", "up", "record"} =>
       {versionDirs[i].digits : i \in 1..Len(versionDirs)} = VersionNames
  /\ \A k, l \in Evs : k < l => Num(log[k].v) <= Num(log[l].v)
  /\ \A l \in Evs :
       log[l].ev = "apply" =>
         \A u \in Runnable :
           Num(u) < Num(log[l].v) =>
             \E k \in 1..(l - 1) :
               /\ log[k].v = u
               /\ log[k].ev = "skip" \/ (log[k].ev = "record" /\ log[k].ok)

\* v1 and v2 were recorded, in that order, before v10's pipeline began.
C4_Witness ==
  \E k, l, m \in Evs :
    /\ k < l /\ l < m
    /\ log[k].ev = "record" /\ log[k].ok /\ log[k].v = <<1>>
    /\ log[l].ev = "record" /\ log[l].ok /\ log[l].v = <<2>>
    /\ log[m].ev = "apply" /\ log[m].v = <<1, 0>>

\* C5 (as claimed): the stages of a pending version come in the order backup,
\* push, up, record, each after the one before it succeeded; and the push of
\* a version's snapshot ends the run only when the push itself failed (a
\* push command that failed, a snapshot that cannot be read), so that the
\* version goes on to polling and to its up action otherwise.
C5_StageOrder ==
  /\ \A k, l \in Evs :
       (k < l /\ log[k].v = log[l].v /\ log[l].ev = "backup") => log[k].ev = "apply"
  /\ \A l \in Evs :
       log[l].ev \in {"pushcall", "up", "record"} => (l > 1 /\ log[l - 1].ok)
  /\ \A l \in Evs :
       (log[l].ev = "push" /\ ~log[l].ok) =>
         log[l].why \in {"push failed", "SyntaxError", "Snapshot not found"}

\* C6: a record is written only right after the up action of the same version
\* returned without error in the same run; after an up action that raised an
\* error the run has ended with exit status 1 and wrote no record for that
\* version; the collection changes only by the records the run wrote.
C6_RecordAfterUp ==
  /\ \A l \in Evs :
       log[l].ev = "record" =>
         /\ l > 1
         /\ log[l - 1] = Event("up", log[l].v, log[l].id, TRUE)
  /\ \A l \in Evs :
       (log[l].ev = "up" /\ ~log[l].ok) =>
         /\ l = Len(log) /\ pc = "idle" /\ exitCode = 1
         /\ \A k \in Evs : ~(log[k].ev = "record" /\ log[k].v = log[l].v)
  /\ \A i \in Ids :
       coll.docs[i] # startDocs[i] =>
         \E k \in Evs : log[k] = Event("record", coll.docs[i], i, TRUE)

\* A run that recorded one version and ended on the up error of a later one.
C6_Witness ==
  \E k, l \in Evs :
    /\ k < l
    /\ log[k].ev = "record" /\ log[k].ok
    /\ log[l].ev = "up" /\ ~log[l].ok

\* C7: a fatal condition is the last event of its run, and the process has
\* exited with status 1.
C7_FailFast ==
  \A l \in Evs :
    Fatal(log[l]) => (l = Len(log) /\ pc = "idle" /\ exitCode = 1)

\* A run that recorded one version and ended on the failed backup of the next.
C7_Witness ==
  /\ Len(log) > 2
  /\ log[Len(log)] .ev = "backup" /\ ~log[Len(log)].ok
  /\ \E k \in Evs : log[k].ev = "record" /\ log[k].ok
  /\ exitCode = 1

\* C8: in a run that follows an aborted run, every version whose pipeline is
\* executed had no record when the run began, every version with a record
\* is skipped, and the first pipeline executed is that of the lowest-numbered
\* version with a script whose id had no record.
C8_Resume ==
  prevExit = 1 =>
    \A l \in Evs :
      /\ log[l].ev = "apply" => startDocs[log[l].id] = NoDoc
      /\ (log[l].ev = "skip") => startDocs[log[l].id] # NoDoc
      /\ (log[l].ev = "apply" /\ \A k \in 1..(l - 1) : log[k].ev # "apply") =>
           \A u \in Runnable :
             Num(u) < Num(log[l].v) =>
               /\ versions[u].id # NoId
               /\ startDocs[versions[u].id] # NoDoc
               /\ \E k \in 1..(l - 1) : log[k].ev = "skip" /\ log[k].v = u

\* A re-run after an abort that skipped a recorded version and then began the
\* pipeline of the first version without a record.
C8_Witness ==
  /\ prevExit = 1
  /\ Len(log) >= 2
  /\ log[1].ev = "skip" /\ startDocs[log[1].id] # NoDoc
  /\ log[2].ev = "apply"

\* C9: when pushSnapshot has thrown because the push of a resource category
\* failed, the root snapshot file is what it was before the call (absent if
\* it was absent).
C9_RootRestoredOnFailure ==
  (ppc = "thrown" /\ perr = "push failed") => rootFile = root0

\* The third category failed, with a root config present before the call.
C9_Witness ==
  /\ ppc = "thrown" /\ perr = "push failed"
  /\ pres = 3 /\ existsSync(root0)
  /\ rewriteSnapshot(psnap, pcfg) # root0

\* C10 (as claimed): on every exit of pushSnapshot after the backup was taken,
\* the root snapshot file is in its pre-call state and the backup file the
\* call created is gone.
C10_CleanOnEveryExit ==
  (ppc \in {"returned", "thrown"} /\ porig) =>
    /\ rootFile = root0
    /\ ~existsSync(bakFile)


\* The events of the stages that follow the backup hook of a version.
AfterBackup == {"pushcall", "push", "up", "record"}

\* C11: when the backup command of a pending version with requiresBackup
\* exits non-zero, the run ends there with exit code 1: no schema push, no up
\* action and no record write happens for that version or a later one.
C11_BackupAbort ==
  \A l \in Evs :
    (log[l].ev = "backup" /\ ~log[l].ok) =>
      /\ l = Len(log) /\ pc = "idle" /\ exitCode = 1
      /\ log[l - 1].ev = "apply" /\ log[l - 1].why = "requiresBackup"
      /\ \A k \in Evs : log[k].ev \in AfterBackup => Num(log[k].v) < Num(log[l].v)

\* A backup command failed for the second version of a run whose first
\* version was applied and recorded.
C11_Witness ==
  /\ Len(log) > 2
  /\ log[Len(log)].ev = "backup" /\ ~log[Len(log)].ok
  /\ \E k \in Evs : log[k].ev = "record" /\ log[k].ok

\* C12: a backup that is wanted while no command is configured only warns:
\* no backup process is started for the version and the run goes on to the
\* schema stage as it does for a version that wants no backup; the backup
\* command is started only straight after a pending version with
\* requiresBackup was announced, never for a skipped version.
C12_BackupBestEffort ==
  /\ \A l \in Evs :
       log[l].ev = "warn" =>
         /\ log[l - 1].ev = "apply" /\ log[l - 1].why = "requiresBackup"
         /\ log[l - 1].v = log[l].v
         /\ \A k \in Evs : log[k].ev = "backup" => log[k].v # log[l].v
         /\ (l = Len(log) => pc \in {"sync", "up", "record"} /\ cur.id = log[l].id)
         /\ (l < Len(log) =>
               log[l + 1].v = log[l].v /\ log[l + 1].ev \in {"pushcall", "up", "record"})
  /\ \A l \in Evs :
       log[l].ev = "backup" =>
         /\ log[l - 1].ev = "apply" /\ log[l - 1].why = "requiresBackup"
         /\ log[l - 1].v = log[l].v
         /\ log[l].id \notin Recorded(startDocs)
  /\ \A l \in Evs :
       (log[l].ev = "apply" /\ log[l].why = "" /\ l < Len(log)) =>
         log[l + 1].ev \in {"pushcall", "up", "record"}

\* A version that wanted a backup was applied and recorded without a backup
\* command.
C12_Witness ==
  \E l \in Evs :
    /\ log[l].ev = "warn" /\ l + 2 <= Len(log)
    /\ log[l + 1].ev = "up" /\ log[l + 1].ok
    /\ log[l + 2].ev = "record" /\ log[l + 2].ok /\ log[l + 2].v = log[l].v


\* The tables of the snapshot that waitForAttributes polls.
Polled == {k \in 1..Len(tables) : tables[k].databaseId}

AllAvailable(t) == \A a \in AttrKeys : remote[t][a] = "available"

C14_SleepPerUnsuccessfulCheck ==
  IF wpc \in {"respond", "sleep"} /\ Unsuccessful(wres)
  THEN unsuccessful = Bump(sleeps)
  ELSE unsuccessful = sleeps

\* The call returned after exactly one sleep: one attribute was pending at
\* the first check and available at the second.
C14_Witness ==
  /\ wpc = "returned" /\ sleeps = 1
  /\ wres.kind = "ok" /\ wres.pending = 0

\* C15: once the outcome of a listAttributes call has been handled, error
\* code 500 has moved the poller past that table (which is not queried again)
\* and any other error has left it on the same table, sleeping or asking again.
C15_ErrorHandling ==
  wpc # "respond" =>
    /\ wres.kind = "500" => wi > wres.i
    /\ wres.kind = "error" => wi = wres.i /\ wpc \in {"sleep", "query"}

\* The first table ended with error code 500 and the second table is being
\* asked again after as many errors as are counted.
C15_Witness ==
  /\ wpc = "query" /\ wi = 2
  /\ wres.kind = "error" /\ wres.i = 2
  /\ unsuccessful = MaxSleeps
  /\ ~AllAvailable(tables[1].id)

\* No attribute of a polled table is stuck.
NoneStuck == \A k \in Polled : \A a \in AttrKeys : remote[tables[k].id][a] # "stuck"

\* A check that found a pending attribute keeps the poller on that table.
StaysOnPendingTable ==
  (wpc # "respond" /\ wres.kind = "ok" /\ wres.pending > 0) =>
    wi = wres.i /\ wpc \in {"sleep", "query"} /\ pc = "poll"

\* C16: waitForAttributes does not return while a polled table reports a
\* pending attribute, however often it has asked; when no attribute of a
\* polled table is stuck, the server finishes its attributes and queries do
\* not fail for ever, it returns and the run reaches the up action.
C16_PollerLiveness ==
  /\ []StaysOnPendingTable
  /\ NoneStuck ~> (pc = "up")

\* The up action was reached after the poller had slept as often as is
\* counted.
C16_Witness ==
  /\ pc = "up" /\ sleeps = MaxSleeps
  /\ wres.kind = "ok" /\ wres.pending = 0


\* A stage failed for a reason outside the program: a script, a command or
\* the server (and not the TypeError of pushSnapshot's own line 178).
ExternalFailure(e) ==
  /\ ~e.ok
  /\ e.ev \in {"configure", "load", "invalid", "backup", "up", "record"}
       \/ (e.ev = "push" /\ e.why # "TypeError")

\* Versions v1 (id 1, no snapshot, no backup wanted) and v2 (id 2, with a
\* snapshot, backup wanted, the backup command configured and succeeding), no
\* other script, an empty tracking collection, and a run that has ended
\* without a failure from outside.
EndToEndScenario ==
  /\ versions[<<1>>] = [index |-> TRUE, id |-> 1]
  /\ versions[<<2>>] = [index |-> TRUE, id |-> 2]
  /\ ~versions[<<1, 0>>].index
  /\ coll.exists /\ Recorded(startDocs) = {}
  /\ pc = "idle" /\ Len(log) >= 6
  /\ \A l \in Evs : ~ExternalFailure(log[l])
  /\ log[1] = Event("apply", <<1>>, 1, TRUE)
  /\ log[2] = Event("up", <<1>>, 1, TRUE)
  /\ log[3] = Event("record", <<1>>, 1, TRUE)
  /\ log[4] = [Event("apply", <<2>>, 2, TRUE) EXCEPT !.why = "requiresBackup"]
  /\ log[5] = Event("backup", <<2>>, 2, TRUE)
  /\ log[6] = Event("pushcall", <<2>>, 2, TRUE)

\* C17: in the end-to-end scenario the run goes on, after the push of v2's
\* snapshot, to up(v2) and the record of id 2, ends with exit code 0 and
\* leaves the applied set {1, 2}.
C17_EndToEnd ==
  EndToEndScenario =>
    /\ exitCode = 0
    /\ Recorded(coll.docs) = {1, 2}
    /\ log[Len(log) - 1] = Event("up", <<2>>, 2, TRUE)
    /\ log[Len(log)] = Event("record", <<2>>, 2, TRUE)


\* The versions whose definition has no default export or no id.
Invalid == {v \in VersionNames : versions[v].index /\ versions[v].id = NoId}

\* C18: a version whose definition lacks a default export or an id is
\* rejected before anything is done for it: the run's only events for such a
\* version are the failed load or the rejection, the rejection ends the run
\* with exit code 1, and no stage is in progress for such a version.
C18_InvalidRejected ==
  /\ \A l \in Evs :
       log[l].v \in Invalid =>
         /\ log[l].ev \in {"load", "invalid"}
         /\ l = Len(log) /\ pc = "idle" /\ exitCode = 1
  /\ pc \in {"backup", "sync", "pushing", "up", "record"} => version \notin Invalid

\* An invalid definition was rejected after an earlier version of the same
\* run had been applied and recorded.
C18_Witness ==
  /\ Len(log) > 1 /\ log[Len(log)].ev = "invalid"
  /\ \E k \in Evs : log[k].ev = "record" /\ log[k].ok /\ Num(log[k].v) < Num(log[Len(log)].v)

\* C19 as stated: when a script of the version set fails to load, the run
\* has performed no backup command, schema push, up action or record write
\* for any version.
C19_NoMutationBeforeLoadError ==
  \A l \in Evs :
    (log[l].ev = "load" /\ ~log[l].ok) =>
      \A k \in Evs : log[k].ev \notin {"backup", "pushcall", "up", "record"}

\* C19, amended: when the script of a version fails to load, the run ends
\* there with exit code 1 and has performed no backup command, schema push,
\* up action or record write for that version or any version after it in
\* the order (versions before it may have been applied).
C19_NoMutationFromLoadErrorOn ==
  \A l \in Evs :
    (log[l].ev = "load" /\ ~log[l].ok) =>
      /\ l = Len(log) /\ pc = "idle" /\ exitCode = 1
      /\ \A k \in Evs :
           log[k].ev \in {"apply", "warn", "backup", "pushcall", "push", "up", "record"} =>
             Num(log[k].v) < Num(log[l].v)

\* The script of a later version failed to load after an earlier version had
\* been applied and recorded in the same run.
C19_Witness ==
  /\ Len(log) > 1 /\ log[Len(log)].ev = "load"
  /\ \E k \in Evs : log[k].ev = "up" /\ log[k].ok
  /\ \E k \in Evs : log[k].ev = "record" /\ log[k].ok

\* C20: when the schema tool cannot be configured the run ends at once with
\* exit code 1: nothing else has happened in that run, neither the discovery
\* nor the fetch of the applied ids nor any stage of any version, and the
\* tracking collection is as it was.
C20_ConfigureFailsFirst ==
  \A l \in Evs :
    log[l].ev = "configure" =>
      /\ ~log[l].ok /\ Len(log) = 1
      /\ pc = "idle" /\ exitCode = 1
      /\ versionDirs = <<>> /\ appliedSet = {}
      /\ coll.docs = startDocs

\* The schema tool could not be configured in a run that follows a run which
\* had applied a version.
C20_Witness ==
  /\ Len(log) = 1 /\ log[1].ev = "configure"
  /\ Recorded(startDocs) # {} /\ Runnable # {}


\* A step keeps every record there is.
RecordsKept == \A i \in Ids : coll.docs[i] # NoDoc => coll'.docs[i] = coll.docs[i]

\* C21: no step of a run, completed or interrupted, changes or removes a
\* record of the tracking collection, so the recorded ids only grow and a
\* record is created once; the records present when a run started are still
\* there, and a run skips a version only if its id was recorded when the run
\* started, so an unrecorded version is pending for the next run.
C21_RecordsOnlyGrow ==
  /\ [][RecordsKept]_vars
  /\ [](/\ Recorded(startDocs) \subseteq Recorded(coll.docs)
        /\ \A l \in Evs : log[l].ev = "skip" => log[l].id \in Recorded(startDocs))

\* A run was interrupted between the up action and the record write of its
\* second pending version: the first version's record is there, the second
\* version has none.
C21_Witness ==
  /\ pc = "idle" /\ exitCode = Killed
  /\ Len(log) > 3 /\ log[Len(log)].ev = "up" /\ log[Len(log)].ok
  /\ coll.docs[log[Len(log)].id] = NoDoc
  /\ \E k \in Evs : log[k].ev = "record" /\ log[k].ok /\ coll.docs[log[k].id] = log[k].v


\* The event the step has appended to the log.
Appended == log'[Len(log')]

\* C22: a call recordMigration(id, name) that succeeds has inserted the one
\* document id -> name and changed nothing else; when a document with that
\* key exists the call fails and the collection is as it was.
C22_RecordInsertsOne ==
  [][(pc = "record" /\ pc' # "record") =>
       /\ Appended.ev = "record" /\ Appended.id = cur.id
       /\ coll.docs[cur.id] # NoDoc => ~Appended.ok
       /\ ~Appended.ok => coll' = coll
       /\ Appended.ok =>
            /\ coll.docs[cur.id] = NoDoc
            /\ coll'.exists
            /\ coll'.docs[cur.id] = version
            /\ \A j \in Ids \ {cur.id} : coll'.docs[j] = coll.docs[j]]_vars

\* recordMigration failed for an id that has a record under another name,
\* and that record is as it was.
C22_Witness ==
  /\ Len(log) > 0 /\ log[Len(log)].ev = "record" /\ ~log[Len(log)].ok
  /\ coll.docs[log[Len(log)].id] \notin {NoDoc, log[Len(log)].v}


\* The positions of a run after the applied ids were fetched.
InLoop == {"loop", "backup", "sync", "pushing", "up", "record"}

\* C23: getAppliedMigrations fails only for a remote error other than 'not
\* found', and that failure ends the run with exit code 1 before any version
\* is looked at; with the tracking collection missing the run goes on with an
\* empty applied set.
C23_NotFoundIsEmpty ==
  /\ \A l \in Evs :
       log[l].ev = "state" =>
         /\ log[l].why = "error"
         /\ Len(log) = 1 /\ pc = "idle" /\ exitCode = 1
         /\ coll.docs = startDocs
  /\ (pc \in InLoop /\ ~coll.exists) => appliedSet = {}

\* With the tracking collection missing, a run has got as far as the up
\* action of a version.
C23_Witness ==
  /\ ~coll.exists /\ pc = "up" /\ appliedSet = {}
  /\ log # <<>> /\ log[Len(log)].ev \in {"apply", "warn", "backup"}

\* C24: whenever the tracking collection holds no more records than the cap,
\* the applied set the run's skip check uses is the set of all recorded ids.
C24_AllKeysFetched ==
  (pc \in InLoop /\ coll.exists /\ Cardinality(Recorded(startDocs)) <= QueryLimit) =>
    appliedSet = Recorded(startDocs)

\* A run has fetched an applied set of more than one id.
C24_Witness ==
  /\ pc = "loop" /\ idx = 1
  /\ Cardinality(appliedSet) > 1 /\ appliedSet = Recorded(coll.docs)


\* C25: after a call of ensureMigrationCollection that returned, database
\* and collection exist and the collection has both attributes; the call
\* after one that returned creates nothing; a call that threw at its first
\* remote call created nothing.
C25_EnsureIdempotent ==
  /\ (epc = "idle" /\ eret = "ok") => Complete(sys)
  /\ \A k \in 1..Len(ecalls) :
       /\ (k > 1 /\ ecalls[k - 1].ret = "ok") => ecalls[k].created = {}
       /\ "name" \in ecalls[k].created => "collection" \in ecalls[k].created


\* A credential is absent or empty in the environment of the process.
CredentialMissing == \E k \in Mandatory : penv[k] \in {Unset, ""}

\* C26: a loadConfig call fails exactly when one of the three credentials is
\* absent or empty in the environment; a failed call returns no
\* configuration and the command exits without a remote call; a call that
\* succeeds returns the credentials of the environment.
C26_CredentialsRequired ==
  lres.called =>
    /\ lres.threw <=> CredentialMissing
    /\ lres.threw => lres.config = NoConfig /\ lres.next = "exit"
    /\ ~lres.threw =>
         /\ lres.config.endpoint = penv["APPWRITE_ENDPOINT"]
         /\ lres.config.projectId = penv["APPWRITE_PROJECT_ID"]
         /\ lres.config.apiKey = penv["APPWRITE_API_KEY"]

\* loadConfig failed with endpoint and project id given and an empty API key.
C26_Witness ==
  /\ lres.called /\ lres.threw
  /\ penv["APPWRITE_API_KEY"] = ""
  /\ \A k \in Mandatory \ {"APPWRITE_API_KEY"} : penv[k] \notin {Unset, ""}

\* C27 as stated: with the credentials present the call succeeds, the
\* collection is the file's `collection` if the key is present, else
\* 'migrations', the database the file's `database` if present, else its
\* `databaseId` if present, else 'system'; a missing or malformed file gives
\* both defaults.
C27_SettingsIfPresent ==
  (lres.called /\ ~CredentialMissing) =>
    /\ ~lres.threw
    /\ lres.config.migrationCollectionId =
         IF settingsFile.kind = "json" /\ settingsFile.collection # Unset
         THEN settingsFile.collection ELSE "migrations"
    /\ lres.config.database =
         IF settingsFile.kind = "json" /\ settingsFile.database # Unset
         THEN settingsFile.database
         ELSE IF settingsFile.kind = "json" /\ settingsFile.databaseId # Unset
         THEN settingsFile.databaseId ELSE "system"

\* The value of a key of the settings file when it is present and not empty.
Given(x) == x # Unset /\ x # ""

\* C27, amended: as above with "present" read as "present and not empty": an
\* empty `collection` gives 'migrations', an empty `database` falls through
\* to `databaseId`, an empty `databaseId` to 'system'.
C27_SettingsIfGiven ==
  (lres.called /\ ~CredentialMissing) =>
    /\ ~lres.threw
    /\ settingsFile.kind # "json" =>
         lres.config.migrationCollectionId = "migrations" /\ lres.config.database = "system"
    /\ settingsFile.kind = "json" =>
         /\ Given(settingsFile.collection) =>
              lres.config.migrationCollectionId = settingsFile.collection
         /\ ~Given(settingsFile.collection) =>
              lres.config.migrationCollectionId = "migrations"
         /\ Given(settingsFile.database) => lres.config.database = settingsFile.database
         /\ (~Given(settingsFile.database) /\ Given(settingsFile.databaseId)) =>
              lres.config.database = settingsFile.databaseId
         /\ (~Given(settingsFile.database) /\ ~Given(settingsFile.databaseId)) =>
              lres.config.database = "system"

\* The settings file has no `database` and a `databaseId`, which the
\* configuration took.
C27_Witness ==
  /\ lres.called /\ ~lres.threw
  /\ settingsFile.kind = "json" /\ settingsFile.database = Unset
  /\ settingsFile.databaseId = "i" /\ lres.config.database = "i"
  /\ settingsFile.collection = ""

\* C28: what a loadConfig call returns is what a call with the same
\* environment file and the same settings file returns when it is the first
\* call of the process.
C28_PureFunction ==
  lres.called =>
    LET first == loadConfig(dotenvConfig(penv0, envFiles[lpath]), settingsFile)
    IN lres.threw = first.threw /\ lres.config = first.config


\* C29: pullSnapshot ends only after all four pulls were attempted; it
\* throws exactly when the root config does not exist after them, and then
\* the target is as it was; when it returns, the target holds what the
\* root config was after the pulls and the root config is removed.
C29_PullAllThenCopy ==
  /\ gpc \in {"check", "returned", "thrown"} => Len(gtried) = Len(RESOURCES)
  /\ gpc = "thrown" =>
       /\ ~existsSync(root0) /\ \A k \in 1..Len(gtried) : ~gtried[k]
       /\ ~existsSync(rootFile) /\ targetFile = target0
  /\ gpc = "returned" =>
       /\ existsSync(root0) \/ \E k \in 1..Len(gtried) : gtried[k]
       /\ targetFile = IF \E k \in 1..Len(gtried) : gtried[k] THEN PulledSnapshot ELSE root0
       /\ ~existsSync(rootFile)

\* pullSnapshot returned although the pulls of tables and buckets had failed.
C29_Witness ==
  /\ gpc = "returned" /\ ~gtried[1] /\ ~gtried[2] /\ gtried[4]
  /\ targetFile = PulledSnapshot /\ target0 = StaleTarget

\* C30: while pushSnapshot runs `appwrite push`, the root config is the
\* version's snapshot with the projectId of the configuration in place of
\* its own and the same content otherwise; the version's snapshot file is
\* never written.
C30_ProjectIdRewritten ==
  /\ [](ppc = "loop" =>
          /\ rootFile.kind = "json" /\ psnap.kind = "json"
          /\ rootFile.projectId = pcfg.projectId
          /\ rootFile.body = psnap.body)
  /\ [][psnap' = psnap]_vars

\* A snapshot pulled from another project is being pushed, the third
\* resource is next.
C30_Witness ==
  /\ ppc = "loop" /\ pres = 3
  /\ psnap.projectId = "dev" /\ pcfg.projectId = "prod" /\ rootFile.projectId = "prod"


\* C36 (as claimed): a record written for a version is preceded, in the same
\* run, by the completed up action of that version; a definition without up
\* action is never recorded.
C36_RecordedOnlyAfterUp ==
  \A l \in Evs :
    (log[l].ev = "record" /\ log[l].ok) =>
      \E k \in 1..(l - 1) : log[k] = Event("up", log[l].v, log[l].id, TRUE)


\* The steps of a run begin in the order configure, discover, state check.
FetchedOncePerRun ==
  /\ (pc' = "state" /\ pc # "state") => pc = "discover"
  /\ (pc' = "discover" /\ pc # "discover") => pc = "configure"
  /\ (pc' = "configure" /\ pc # "configure") => pc = "idle"

\* C31: the applied set is assigned by the one state check of the run, from
\* the collection as it is then and before any version is looked at; it is
\* the same set for the rest of the run whatever is written to the collection,
\* and a version is skipped exactly when its id is in that set.
C31_OneSnapshotPerRun ==
  /\ [][FetchedOncePerRun]_vars
  /\ [][(pc = "state" /\ pc' = "loop") =>
          /\ appliedSet' = (IF coll.exists THEN Recorded(coll.docs) ELSE {})
          /\ log = <<>>]_vars
  /\ [][(pc \in InLoop /\ pc' # "idle") => appliedSet' = appliedSet]_vars
  /\ [](pc \in InLoop =>
          \A l \in Evs :
            /\ log[l].ev = "skip" => log[l].id \in appliedSet
            /\ log[l].ev = "apply" => log[l].id \notin appliedSet)

\* The id of v2 was recorded by another process after the state check; the
\* run has still treated v2 as pending and executed its up action.
C31_Witness ==
  /\ pc = "record" /\ cur.id \notin appliedSet
  /\ coll.docs[cur.id] # NoDoc /\ startDocs[cur.id] = NoDoc
  /\ version = <<2>>
  /\ log[Len(log)] = Event("up", <<2>>, cur.id, TRUE)
  /\ \A k \in Evs : ~(log[k].ev = "record" /\ log[k].id = cur.id)


\* The run is at the top of its loop, at a version directory without
\* index.ts and index.js.
AtNoIndex == pc = "loop" /\ idx <= Len(versionDirs) /\ ~versions[version].index

\* C32: at a version directory without a script the run moves on to the next
\* directory and changes nothing else; no stage of such a version is ever
\* logged, started or recorded.
C32_NoIndexSkipped ==
  /\ [][AtNoIndex =>
          /\ pc' = "loop" /\ idx' = idx + 1 /\ versionDirs' = versionDirs
          /\ UNCHANGED <<exitCode, appliedSet, cur, coll, log, fileVars, pushVars, upDone>>]_vars
  /\ [](/\ \A l \in Evs : log[l].v # <<>> => versions[log[l].v].index
        /\ pc \in {"backup", "sync", "pushing", "up", "record"} => versions[version].index
        /\ \A i \in Ids : coll.docs[i] # NoDoc => versions[coll.docs[i]].index)

\* v1 has no script; the run has passed it and recorded v2.
C32_Witness ==
  /\ ~versions[<<1>>].index /\ versions[<<2>>].index
  /\ pc = "loop" /\ idx = 3
  /\ log[Len(log)] = Event("record", <<2>>, versions[<<2>>].id, TRUE)
  /\ \A l \in Evs : log[l].v # <<1>>


\* C33 (as claimed): when a run has ended without a failure from outside,
\* every version whose snapshot it set out to push is recorded under its id
\* and the root config holds the content of the version's snapshot.
C33_RootIsSnapshot ==
  (pc = "idle" /\ \A k \in Evs : ~ExternalFailure(log[k])) =>
    \A l \in Evs :
      log[l].ev = "pushcall" =>
        /\ coll.docs[log[l].id] = log[l].v
        /\ rootFile.kind = "json" /\ rootFile.body = VersionSnapshot.body


\* C34 (as claimed): the directories the run goes through are named v<N> with
\* N a positive integer, and their numbers ascend strictly.
C34_UniquePositive ==
  dpc = "listed" =>
    /\ \A i \in 1..Len(versionDirs) :
         /\ versionDirs[i].first = "v" /\ versionDirs[i].isDir
         /\ versionDirs[i].digits # <<>> /\ parseInt(versionDirs[i].digits) > 0
    /\ \A i, j \in 1..Len(versionDirs) :
         i < j => parseInt(versionDirs[i].digits) < parseInt(versionDirs[j].digits)


\* The poller is at a table that has no databaseId.
AtSkipped == wpc = "table" /\ wi <= Len(tables) /\ ~tables[wi].databaseId

\* Every table of the snapshot lacks a databaseId.
AllSkipped ==
  /\ wsnap.kind = "json" /\ tables # <<>>
  /\ \A k \in 1..Len(tables) : ~tables[k].databaseId

\* C35: listAttributes is only ever called, answered or waited on for a table
\* that has a databaseId; at a table without one the poller goes to the next
\* table without a query and without a sleep, and it does not stay there: a
\* snapshot whose tables all lack a databaseId lets the run reach the up
\* action whatever the server's attributes are.
C35_NoDatabaseIdNotPolled ==
  /\ [](wpc \in {"query", "respond", "sleep"} => tables[wi].databaseId)
  /\ [](wres.kind # "none" => tables[wres.i].databaseId)
  /\ [][AtSkipped =>
          /\ wpc' = "table" /\ wi' \in {wi, wi + 1}
          /\ UNCHANGED <<wres, sleeps, unsuccessful>>]_vars
  /\ AtSkipped ~> ~AtSkipped
  /\ AllSkipped ~> (pc = "up")

\* The first table has no databaseId and an attribute that is stuck; the
\* poller has passed it and waits for the second table.
C35_Witness ==
  /\ wpc = "sleep" /\ wi = 2
  /\ ~tables[1].databaseId /\ tables[2].databaseId
  /\ \E a \in AttrKeys : remote[tables[1].id][a] = "stuck"
  /\ wres.i = 2


\* A run against a server without the tracking collection has ended; it
\* began the pipeline of a version and no stage failed for a reason outside
\* the program, the record write apart.
RunWithoutCollection ==
  /\ ~coll.exists
  /\ pc = "idle" /\ log # <<>> /\ log[1].ev = "apply"
  /\ \A k \in Evs : ExternalFailure(log[k]) => log[k].ev = "record"

\* C37 (as claimed): such a run, the first one or a re-run, skips nothing,
\* executes the up action of the first version that has a script and ends on
\* the failed record write of that version, with exit status 1 and no record.
C37_UpThenRecordFails ==
  RunWithoutCollection =>
    /\ \A k \in Evs : log[k].ev # "skip"
    /\ \A u \in Runnable : Num(log[1].v) <= Num(u)
    /\ Len(log) >= 3
    /\ log[Len(log) - 1] = Event("up", log[1].v, log[1].id, TRUE)
    /\ log[Len(log)] = Event("record", log[1].v, log[1].id, FALSE)
    /\ exitCode = 1 /\ Recorded(coll.docs) = {}


\* An earlier call of ensureMigrationCollection threw after it had created
\* the collection and before it had created both attributes.
FailedHalfway ==
  \E j \in 1..(Len(ecalls) - 1) :
    /\ ecalls[j].ret = "threw"
    /\ "collection" \in ecalls[j].created
    /\ ~(Attrs \subseteq ecalls[j].created)

\* C38 (as claimed): when a call of ensureMigrationCollection has returned
\* after an earlier call failed halfway, the collection has both attributes.
C38_SetupRepairs ==
  (epc = "idle" /\ eret = "ok" /\ FailedHalfway) =>
    (sys.collection /\ sys.attrs = Attrs)


\* C39 (as claimed): when the call of pushSnapshot that follows an interrupted
\* one has returned or thrown, the root config is what it was before the
\* interrupted call and there is no .bak file.
C39_RestoredAfterKill ==
  (exitCode = Killed /\ ppc \in {"returned", "thrown"}) =>
    /\ rootFile = rootBefore
    /\ ~existsSync(bakFile)


\* What runMigrations does with version v when it is started in this state:
\* it skips v as already applied (the guards of skipApplied, with the applied
\* ids as the state check fetches them).
RunSkipsAsApplied(v) ==
  /\ versions[v].index /\ versions[v].id # NoId
  /\ alreadyApplied(versions[v].id, getAppliedMigrations(coll, TRUE).ids)

\* C40 (as claimed): the status command changes neither the tracking
\* collection nor the version directories, and a line it prints says APPLIED
\* exactly when runMigrations would skip that version as already applied.
C40_StatusAgreesWithRun ==
  /\ [][coll' = coll /\ versions' = versions /\ indexTs' = indexTs
          /\ migrationsDir' = migrationsDir]_vars
  /\ [](\A k \in 1..Len(sreport) :
          sreport[k].status = "APPLIED" <=> RunSkipsAsApplied(sreport[k].v))

====
